---- MODULE Spec2Model ----
(***************************************************************************)
(* Model of the transform composition / decomposition engine of vecmath:   *)
(* Matrix4x4.compose, Matrix4x4.decompose, Matrix4x4.determinant and       *)
(* Quaternion.setFromRotationMatrix.                                       *)
(*                                                                         *)
(* Numbers.  A JavaScript number is modelled as a pair <<n, d>>: the exact *)
(* rational n/d in lowest terms with d > 0, or one of the IEEE specials    *)
(* <<0,0>> (NaN), <<1,0>> (+Infinity), <<-1,0>> (-Infinity).  Arithmetic   *)
(* is exact; the rounding of Float32Array stores and the sign of zero are  *)
(* not modelled.  Math.sqrt is exact on squares of rationals and rounds    *)
(* down to the radicand's denominator grid otherwise; the inputs are       *)
(* restricted to those on which every root an operation takes is exact     *)
(* (RootsExact holds in every reachable state).                            *)
(***************************************************************************)
EXTENDS Integers, Sequences, FiniteSets, TLC

(***************************************************************************)
(* Bounds of the input sets.                                               *)
(***************************************************************************)
QDen == 3
ScaleMax == 2
PosMax == 1

(***************************************************************************)
(* IEEE-style arithmetic over exact rationals.                             *)
(***************************************************************************)
Abs(n) == IF n < 0 THEN -n ELSE n
Sgn(n) == IF n < 0 THEN -1 ELSE IF n > 0 THEN 1 ELSE 0

RECURSIVE GCD(_, _)
GCD(a, b) == IF b = 0 THEN a ELSE GCD(b, a % b)

Norm(n, d) ==
  IF d = 0 THEN <<Sgn(n), 0>>
  ELSE LET g == GCD(Abs(n), Abs(d))
       IN  <<(Sgn(d) * n) \div g, Abs(d) \div g>>

R(n) == <<n, 1>>
Frac(n, d) == Norm(n, d)
NaN == <<0, 0>>
IsNaN(a) == a = NaN
IsFinite(a) == a[2] # 0

Neg(a) == <<-a[1], a[2]>>

Add(a, b) ==
  IF a[2] = 0 /\ b[2] = 0 THEN (IF a = b THEN a ELSE NaN)
  ELSE IF a[2] = 0 THEN a
  ELSE IF b[2] = 0 THEN b
  ELSE IF a[1] = 0 THEN b
  ELSE IF b[1] = 0 THEN a
  ELSE IF a[2] = 1 /\ b[2] = 1 THEN <<a[1] + b[1], 1>>
  ELSE IF a[2] = b[2] THEN Norm(a[1] + b[1], a[2])
  ELSE LET g == GCD(a[2], b[2])
       IN  Norm(a[1] * (b[2] \div g) + b[1] * (a[2] \div g), (a[2] \div g) * b[2])

Sub(a, b) == Add(a, Neg(b))

\* the operands are in lowest terms, so cancelling across gives lowest terms
Mul(a, b) ==
  IF a[2] = 0 \/ b[2] = 0 THEN <<Sgn(a[1]) * Sgn(b[1]), 0>>
  ELSE IF a[1] = 0 \/ b[1] = 0 THEN <<0, 1>>
  ELSE IF a[2] = 1 /\ b[2] = 1 THEN <<a[1] * b[1], 1>>
  ELSE LET g1 == GCD(Abs(a[1]), b[2])
           g2 == GCD(Abs(b[1]), a[2])
       IN  <<(a[1] \div g1) * (b[1] \div g2), (a[2] \div g2) * (b[2] \div g1)>>

\* 1 / a: 1/0 is Infinity, 1/Infinity is 0, 1/NaN is NaN
Inv(a) ==
  IF a[2] = 0 THEN (IF a[1] = 0 THEN NaN ELSE <<0, 1>>)
  ELSE IF a[1] = 0 THEN <<1, 0>>
  ELSE <<Sgn(a[1]) * a[2], Abs(a[1])>>

\* a / b: 0/0 is NaN, x/0 is +-Infinity
Div(a, b) == Mul(a, Inv(b))

\* position on the extended real line of a value that is not NaN
Rank(a) == IF a[2] # 0 THEN 0 ELSE a[1]

\* a < b; every comparison with NaN is false
Lt(a, b) ==
  IF IsNaN(a) \/ IsNaN(b) THEN FALSE
  ELSE IF a[2] # 0 /\ b[2] # 0 THEN a[1] * b[2] < b[1] * a[2]
  ELSE Rank(a) < Rank(b)

Gt(a, b) == Lt(b, a)

RECURSIVE ISqrtIter(_, _)
ISqrtIter(n, x) ==
  LET y == (x + n \div x) \div 2
  IN  IF y >= x THEN x ELSE ISqrtIter(n, y)

\* floor of the square root of a natural number
ISqrt(n) == IF n < 2 THEN n ELSE ISqrtIter(n, n)

\* the radicand is the square of a rational: Sqrt(a) is its exact root
SqrtExact(a) ==
  /\ a[2] # 0
  /\ a[1] >= 0
  /\ ISqrt(a[1]) * ISqrt(a[1]) = a[1]
  /\ ISqrt(a[2]) * ISqrt(a[2]) = a[2]

\* Math.sqrt: NaN for negative arguments and NaN
Sqrt(a) ==
  IF a[2] = 0 THEN (IF a[1] = 1 THEN a ELSE NaN)
  ELSE IF a[1] < 0 THEN NaN
  ELSE IF SqrtExact(a) THEN <<ISqrt(a[1]), ISqrt(a[2])>>
  ELSE Norm(ISqrt(a[1] * a[2]), a[2])

\* Math.hypot(a, b, c)
hypot(a, b, c) == Sqrt(Add(Add(Mul(a, a), Mul(b, b)), Mul(c, c)))

\* x > EPS with EPS = 1e-12.  A finite model value n/d has 0 < d < 2^31 <
\* 10^12, so n/d > 1/10^12 exactly when n >= 1.
GtEPS(x) ==
  IF x[2] = 0 THEN x[1] = 1 ELSE x[1] >= 1

\* a local constant: e is evaluated once and F is applied to its value
Local(e, F(_)) == F(e)

(***************************************************************************)
(* Vector3                                                                 *)
(***************************************************************************)
Vector3(x, y, z) == <<x, y, z>>

cross(a, b) ==
  <<Sub(Mul(a[2], b[3]), Mul(a[3], b[2])),
    Sub(Mul(a[3], b[1]), Mul(a[1], b[3])),
    Sub(Mul(a[1], b[2]), Mul(a[2], b[1]))>>

dot(a, b) == Add(Add(Mul(a[1], b[1]), Mul(a[2], b[2])), Mul(a[3], b[3]))

negate(a) == <<Neg(a[1]), Neg(a[2]), Neg(a[3])>>

Vector3_lengthSq(a) == Add(Add(Mul(a[1], a[1]), Mul(a[2], a[2])), Mul(a[3], a[3]))

Vector3_length(a) == hypot(a[1], a[2], a[3])

(***************************************************************************)
(* Quaternion: <<x, y, z, w>>                                              *)
(***************************************************************************)
lengthSq(q) ==
  Add(Add(Add(Mul(q[1], q[1]), Mul(q[2], q[2])), Mul(q[3], q[3])), Mul(q[4], q[4]))

length(q) == Sqrt(lengthSq(q))

normalize(q) ==
  Local(length(q), LAMBDA len :
    IF Gt(len, R(0))
    THEN Local(Div(R(1), len), LAMBDA inv :
           <<Mul(q[1], inv), Mul(q[2], inv), Mul(q[3], inv), Mul(q[4], inv)>>)
    ELSE q)

\* the m11 branch taken as soon as m11 exceeds m22
rotationBranch_firstGreater(te) ==
  LET m11 == te[0]
      m22 == te[5]
      m33 == te[10]
      trace == Add(Add(m11, m22), m33)
  IN  IF Gt(trace, R(0)) THEN 0
      ELSE IF Gt(m11, m22) THEN 1
      ELSE IF Gt(m22, m33) THEN 2
      ELSE 3

\* the diagonal comparisons reversed: the smallest entry chosen
rotationBranch_reversed(te) ==
  LET m11 == te[0]
      m22 == te[5]
      m33 == te[10]
      trace == Add(Add(m11, m22), m33)
  IN  IF Gt(trace, R(0)) THEN 0
      ELSE IF Lt(m11, m22) /\ Lt(m11, m33) THEN 1
      ELSE IF Lt(m22, m33) THEN 2
      ELSE 3

\* the extraction branch taken: 0 trace, 1 m11, 2 m22, 3 m33
rotationBranch(te) ==
  LET m11 == te[0]
      m22 == te[5]
      m33 == te[10]
      trace == Add(Add(m11, m22), m33)
  IN  IF Gt(trace, R(0)) THEN 0
      ELSE IF Gt(m11, m22) /\ Gt(m11, m33) THEN 1
      ELSE IF Gt(m22, m33) THEN 2
      ELSE 3

\* the quantity under the square root in the branch taken
rotationRadicand(te) ==
  LET m11 == te[0]
      m22 == te[5]
      m33 == te[10]
      b == rotationBranch(te)
  IN  IF b = 0 THEN Add(Add(Add(m11, m22), m33), R(1))
      ELSE IF b = 1 THEN Sub(Sub(Add(R(1), m11), m22), m33)
      ELSE IF b = 2 THEN Sub(Sub(Add(R(1), m22), m11), m33)
      ELSE Sub(Sub(Add(R(1), m33), m11), m22)

\* the four components as assigned by the branch, before normalize()
rotationRaw(te) ==
  LET m11 == te[0]   m12 == te[4]   m13 == te[8]
      m21 == te[1]   m22 == te[5]   m23 == te[9]
      m31 == te[2]   m32 == te[6]   m33 == te[10]
  IN  Local(rotationBranch(te), LAMBDA b :
        IF b = 0
        THEN Local(Div(Frac(1, 2), Sqrt(rotationRadicand(te))), LAMBDA s :
               <<Mul(Sub(m32, m23), s), Mul(Sub(m13, m31), s),
                 Mul(Sub(m21, m12), s), Div(Frac(1, 4), s)>>)
        ELSE IF b = 1
        THEN Local(Mul(R(2), Sqrt(rotationRadicand(te))), LAMBDA s :
               <<Mul(Frac(1, 4), s), Div(Add(m12, m21), s),
                 Div(Add(m13, m31), s), Div(Sub(m32, m23), s)>>)
        ELSE IF b = 2
        THEN Local(Mul(R(2), Sqrt(rotationRadicand(te))), LAMBDA s :
               <<Div(Add(m12, m21), s), Mul(Frac(1, 4), s),
                 Div(Add(m23, m32), s), Div(Sub(m13, m31), s)>>)
        ELSE Local(Mul(R(2), Sqrt(rotationRadicand(te))), LAMBDA s :
               <<Div(Add(m13, m31), s), Div(Add(m23, m32), s),
                 Mul(Frac(1, 4), s), Div(Sub(m21, m12), s)>>))

\* the trailing normalize() left out
setFromRotationMatrix_unnormalized(te) == rotationRaw(te)

setFromRotationMatrix(te) == normalize(rotationRaw(te))

(***************************************************************************)
(* Matrix4x4: elements 0..15 in column-major order                         *)
(***************************************************************************)
\* the Float32Array(16) holding e[1], ..., e[16] at indices 0..15
Elements(e) == [i \in 0..15 |-> e[i + 1]]

\* set(n11, ..., n44): row-major arguments n[1..16] into column-major storage
set(n) ==
  Elements(<<n[1], n[5], n[9],  n[13],
             n[2], n[6], n[10], n[14],
             n[3], n[7], n[11], n[15],
             n[4], n[8], n[12], n[16]>>)

identity == set(<<R(1), R(0), R(0), R(0),
                  R(0), R(1), R(0), R(0),
                  R(0), R(0), R(1), R(0),
                  R(0), R(0), R(0), R(1)>>)

\* compose with the scale of row r, and not of column c, on the element (r, c)
compose_rowScaled(position, quaternion, scale) ==
  LET x == quaternion[1]   y == quaternion[2]
      z == quaternion[3]   w == quaternion[4]
      x2 == Add(x, x)   y2 == Add(y, y)   z2 == Add(z, z)
      xx == Mul(x, x2)  xy == Mul(x, y2)  xz == Mul(x, z2)
      yy == Mul(y, y2)  yz == Mul(y, z2)  zz == Mul(z, z2)
      wx == Mul(w, x2)  wy == Mul(w, y2)  wz == Mul(w, z2)
      sx == scale[1]    sy == scale[2]    sz == scale[3]
  IN  Elements(<<Mul(Sub(R(1), Add(yy, zz)), sx),
                 Mul(Add(xy, wz), sy),
                 Mul(Sub(xz, wy), sz),
                 R(0),
                 Mul(Sub(xy, wz), sx),
                 Mul(Sub(R(1), Add(xx, zz)), sy),
                 Mul(Add(yz, wx), sz),
                 R(0),
                 Mul(Add(xz, wy), sx),
                 Mul(Sub(yz, wx), sy),
                 Mul(Sub(R(1), Add(xx, yy)), sz),
                 R(0),
                 position[1],
                 position[2],
                 position[3],
                 R(1)>>)

compose(position, quaternion, scale) ==
  LET x == quaternion[1]   y == quaternion[2]
      z == quaternion[3]   w == quaternion[4]
      x2 == Add(x, x)   y2 == Add(y, y)   z2 == Add(z, z)
      xx == Mul(x, x2)  xy == Mul(x, y2)  xz == Mul(x, z2)
      yy == Mul(y, y2)  yz == Mul(y, z2)  zz == Mul(z, z2)
      wx == Mul(w, x2)  wy == Mul(w, y2)  wz == Mul(w, z2)
      sx == scale[1]    sy == scale[2]    sz == scale[3]
  IN  Elements(<<Mul(Sub(R(1), Add(yy, zz)), sx),
                 Mul(Add(xy, wz), sx),
                 Mul(Sub(xz, wy), sx),
                 R(0),
                 Mul(Sub(xy, wz), sy),
                 Mul(Sub(R(1), Add(xx, zz)), sy),
                 Mul(Add(yz, wx), sy),
                 R(0),
                 Mul(Add(xz, wy), sz),
                 Mul(Sub(yz, wx), sz),
                 Mul(Sub(R(1), Add(xx, yy)), sz),
                 R(0),
                 position[1],
                 position[2],
                 position[3],
                 R(1)>>)

\* determinant(): the factor multiplied by n41
detTerm41(te) ==
  LET n12 == te[4]   n13 == te[8]    n14 == te[12]
      n22 == te[5]   n23 == te[9]    n24 == te[13]
      n32 == te[6]   n33 == te[10]   n34 == te[14]
      P3(a, b, c) == Mul(Mul(a, b), c)
  IN  Sub(Add(Add(Sub(Sub(P3(n14, n23, n32), P3(n13, n24, n32)),
                      P3(n14, n22, n33)),
                  P3(n12, n24, n33)),
              P3(n13, n22, n34)),
          P3(n12, n23, n34))

\* determinant(): the factor multiplied by n42
detTerm42(te) ==
  LET n11 == te[0]   n13 == te[8]    n14 == te[12]
      n21 == te[1]   n23 == te[9]    n24 == te[13]
      n31 == te[2]   n33 == te[10]   n34 == te[14]
      P3(a, b, c) == Mul(Mul(a, b), c)
  IN  Sub(Add(Sub(Add(Sub(P3(n11, n23, n34), P3(n11, n24, n33)),
                      P3(n14, n21, n33)),
                  P3(n13, n21, n34)),
              P3(n13, n24, n31)),
          P3(n14, n23, n31))

\* determinant(): the factor multiplied by n43
detTerm43(te) ==
  LET n11 == te[0]   n12 == te[4]   n14 == te[12]
      n21 == te[1]   n22 == te[5]   n24 == te[13]
      n31 == te[2]   n32 == te[6]   n34 == te[14]
      P3(a, b, c) == Mul(Mul(a, b), c)
  IN  Sub(Add(Add(Sub(Sub(P3(n11, n24, n32), P3(n11, n22, n34)),
                      P3(n14, n21, n32)),
                  P3(n12, n21, n34)),
              P3(n14, n22, n31)),
          P3(n12, n24, n31))

\* a sign slip in the last product of the n44 factor
detTerm44_signSlip(te) ==
  LET n11 == te[0]   n12 == te[4]   n13 == te[8]
      n21 == te[1]   n22 == te[5]   n23 == te[9]
      n31 == te[2]   n32 == te[6]   n33 == te[10]
      P3(a, b, c) == Mul(Mul(a, b), c)
  IN  Sub(Sub(Add(Add(Sub(Neg(P3(n13, n22, n31)), P3(n11, n23, n32)),
                      P3(n11, n22, n33)),
                  P3(n13, n21, n32)),
              P3(n12, n21, n33)),
          P3(n12, n23, n31))

\* determinant(): the factor multiplied by n44
detTerm44(te) ==
  LET n11 == te[0]   n12 == te[4]   n13 == te[8]
      n21 == te[1]   n22 == te[5]   n23 == te[9]
      n31 == te[2]   n32 == te[6]   n33 == te[10]
      P3(a, b, c) == Mul(Mul(a, b), c)
  IN  Add(Sub(Add(Add(Sub(Neg(P3(n13, n22, n31)), P3(n11, n23, n32)),
                      P3(n11, n22, n33)),
                  P3(n13, n21, n32)),
              P3(n12, n21, n33)),
          P3(n12, n23, n31))

determinant(te) ==
  LET n41 == te[3]   n42 == te[7]   n43 == te[11]   n44 == te[15]
  IN  Add(Add(Add(Mul(n41, detTerm41(te)), Mul(n42, detTerm42(te))),
              Mul(n43, detTerm43(te))),
          Mul(n44, detTerm44(te)))

\* decompose, step 3: the Euclidean lengths of the three linear-block columns
columnLengths(te) ==
  <<hypot(te[0], te[1], te[2]), hypot(te[4], te[5], te[6]), hypot(te[8], te[9], te[10])>>

\* decompose, step 4: the columns, each multiplied by 1/length (by 0 when the
\* length is not above EPS)
normalizedColumns(te) ==
  LET colX == Vector3(te[0], te[1], te[2])
      colY == Vector3(te[4], te[5], te[6])
      colZ == Vector3(te[8], te[9], te[10])
  IN  Local(columnLengths(te), LAMBDA len :
        Local(IF GtEPS(len[1]) THEN Div(R(1), len[1]) ELSE R(0), LAMBDA invSx :
        Local(IF GtEPS(len[2]) THEN Div(R(1), len[2]) ELSE R(0), LAMBDA invSy :
        Local(IF GtEPS(len[3]) THEN Div(R(1), len[3]) ELSE R(0), LAMBDA invSz :
          <<Vector3(Mul(colX[1], invSx), Mul(colX[2], invSx), Mul(colX[3], invSx)),
            Vector3(Mul(colY[1], invSy), Mul(colY[2], invSy), Mul(colY[3], invSy)),
            Vector3(Mul(colZ[1], invSz), Mul(colZ[2], invSz), Mul(colZ[3], invSz))>>))))

\* decompose, step 5: determinant of the normalized basis
detSign(te) ==
  Local(normalizedColumns(te), LAMBDA r : dot(cross(r[1], r[2]), r[3]))

\* decompose, step 5: the axis whose column and scale the mirror test negates
\* (1 = X, 2 = Y, 3 = Z, 0 = none)
mirrorAxis(te) ==
  Local(normalizedColumns(te), LAMBDA r :
    IF Lt(dot(cross(r[1], r[2]), r[3]), R(0))
    THEN IF Gt(dot(cross(negate(r[1]), r[2]), r[3]), R(0)) THEN 1
         ELSE IF Gt(dot(cross(r[1], negate(r[2])), r[3]), R(0)) THEN 2
         ELSE 3
    ELSE 0)

\* decompose, step 6: the rotation matrix built from the basis after step 5
rotationBasis(te) ==
  Local(normalizedColumns(te), LAMBDA r :
  Local(mirrorAxis(te), LAMBDA a :
  Local(IF a = 1 THEN negate(r[1]) ELSE r[1], LAMBDA rx :
  Local(IF a = 2 THEN negate(r[2]) ELSE r[2], LAMBDA ry :
  Local(IF a = 3 THEN negate(r[3]) ELSE r[3], LAMBDA rz :
    Elements(<<rx[1], rx[2], rx[3], R(0),
               ry[1], ry[2], ry[3], R(0),
               rz[1], rz[2], rz[3], R(0),
               R(0),  R(0),  R(0),  R(1)>>))))))

\* position.set(te[13], te[12], te[14]): the first two indices exchanged
translation_swapped(te) == Vector3(te[13], te[12], te[14])

\* position.set(te[3], te[7], te[11]): the bottom row instead of the last column
translation_bottomRow(te) == Vector3(te[3], te[7], te[11])

\* decompose, step 1: position.set(te[12], te[13], te[14])
translation(te) == Vector3(te[12], te[13], te[14])

\* decompose, before step 8: the scale recomputed from the diagonal of te and
\* the diagonal of the rotation matrix of the extracted quaternion
rederivedScale(te, quaternion) ==
  LET qx2 == Mul(quaternion[1], quaternion[1])
      qy2 == Mul(quaternion[2], quaternion[2])
      qz2 == Mul(quaternion[3], quaternion[3])
      sx == Div(te[0], Sub(Sub(R(1), Mul(R(2), qy2)), Mul(R(2), qz2)))
      sy == Div(te[5], Sub(Sub(R(1), Mul(R(2), qx2)), Mul(R(2), qz2)))
      sz == Div(te[10], Sub(Sub(R(1), Mul(R(2), qx2)), Mul(R(2), qy2)))
  IN  Vector3(sx, sy, sz)

\* decompose(position, quaternion, scale): the values written to the three
\* output arguments
decompose(te) ==
  Local(setFromRotationMatrix(rotationBasis(te)), LAMBDA quaternion :
    [position   |-> translation(te),
     quaternion |-> quaternion,
     scale      |-> rederivedScale(te, quaternion)])

(***************************************************************************)
(* Matrix4x4: products, elementary matrices, inverse                       *)
(***************************************************************************)
\* this = a x b
multiplyMatrices(ae, be) ==
  Elements(<<
    Add(Add(Add(Mul(ae[0], be[0]), Mul(ae[4], be[1])),
            Mul(ae[8], be[2])), Mul(ae[12], be[3])),
    Add(Add(Add(Mul(ae[1], be[0]), Mul(ae[5], be[1])),
            Mul(ae[9], be[2])), Mul(ae[13], be[3])),
    Add(Add(Add(Mul(ae[2], be[0]), Mul(ae[6], be[1])),
            Mul(ae[10], be[2])), Mul(ae[14], be[3])),
    Add(Add(Add(Mul(ae[3], be[0]), Mul(ae[7], be[1])),
            Mul(ae[11], be[2])), Mul(ae[15], be[3])),
    Add(Add(Add(Mul(ae[0], be[4]), Mul(ae[4], be[5])),
            Mul(ae[8], be[6])), Mul(ae[12], be[7])),
    Add(Add(Add(Mul(ae[1], be[4]), Mul(ae[5], be[5])),
            Mul(ae[9], be[6])), Mul(ae[13], be[7])),
    Add(Add(Add(Mul(ae[2], be[4]), Mul(ae[6], be[5])),
            Mul(ae[10], be[6])), Mul(ae[14], be[7])),
    Add(Add(Add(Mul(ae[3], be[4]), Mul(ae[7], be[5])),
            Mul(ae[11], be[6])), Mul(ae[15], be[7])),
    Add(Add(Add(Mul(ae[0], be[8]), Mul(ae[4], be[9])),
            Mul(ae[8], be[10])), Mul(ae[12], be[11])),
    Add(Add(Add(Mul(ae[1], be[8]), Mul(ae[5], be[9])),
            Mul(ae[9], be[10])), Mul(ae[13], be[11])),
    Add(Add(Add(Mul(ae[2], be[8]), Mul(ae[6], be[9])),
            Mul(ae[10], be[10])), Mul(ae[14], be[11])),
    Add(Add(Add(Mul(ae[3], be[8]), Mul(ae[7], be[9])),
            Mul(ae[11], be[10])), Mul(ae[15], be[11])),
    Add(Add(Add(Mul(ae[0], be[12]), Mul(ae[4], be[13])),
            Mul(ae[8], be[14])), Mul(ae[12], be[15])),
    Add(Add(Add(Mul(ae[1], be[12]), Mul(ae[5], be[13])),
            Mul(ae[9], be[14])), Mul(ae[13], be[15])),
    Add(Add(Add(Mul(ae[2], be[12]), Mul(ae[6], be[13])),
            Mul(ae[10], be[14])), Mul(ae[14], be[15])),
    Add(Add(Add(Mul(ae[3], be[12]), Mul(ae[7], be[13])),
            Mul(ae[11], be[14])), Mul(ae[15], be[15]))>>)

setFromTranslation(v) ==
  set(<<R(1), R(0), R(0), v[1],
        R(0), R(1), R(0), v[2],
        R(0), R(0), R(1), v[3],
        R(0), R(0), R(0), R(1)>>)

setFromScaling(v) ==
  set(<<v[1], R(0), R(0), R(0),
        R(0), v[2], R(0), R(0),
        R(0), R(0), v[3], R(0),
        R(0), R(0), R(0), R(1)>>)

\* the off-diagonal entries written transposed
setFromRotationQuaternion_transposed(q) ==
  LET x == q[1]   y == q[2]   z == q[3]   w == q[4]
      x2 == Add(x, x)   y2 == Add(y, y)   z2 == Add(z, z)
      xx == Mul(x, x2)  xy == Mul(x, y2)  xz == Mul(x, z2)
      yy == Mul(y, y2)  yz == Mul(y, z2)  zz == Mul(z, z2)
      wx == Mul(w, x2)  wy == Mul(w, y2)  wz == Mul(w, z2)
  IN  set(<<Sub(R(1), Add(yy, zz)), Add(xy, wz), Sub(xz, wy), R(0),
            Sub(xy, wz), Sub(R(1), Add(xx, zz)), Add(yz, wx), R(0),
            Add(xz, wy), Sub(yz, wx), Sub(R(1), Add(xx, yy)), R(0),
            R(0), R(0), R(0), R(1)>>)

\* m.setFromRotationQuaternion(q)
setFromRotationQuaternion(q) ==
  LET x == q[1]   y == q[2]   z == q[3]   w == q[4]
      x2 == Add(x, x)   y2 == Add(y, y)   z2 == Add(z, z)
      xx == Mul(x, x2)  xy == Mul(x, y2)  xz == Mul(x, z2)
      yy == Mul(y, y2)  yz == Mul(y, z2)  zz == Mul(z, z2)
      wx == Mul(w, x2)  wy == Mul(w, y2)  wz == Mul(w, z2)
  IN  set(<<Sub(R(1), Add(yy, zz)), Sub(xy, wz), Add(xz, wy), R(0),
            Add(xy, wz), Sub(R(1), Add(xx, zz)), Sub(yz, wx), R(0),
            Sub(xz, wy), Add(yz, wx), Sub(R(1), Add(xx, yy)), R(0),
            R(0), R(0), R(0), R(1)>>)

\* applyToVector3 reading the elements in row-major order
applyToVector3_rowMajor(e, v) ==
  Vector3(Add(Add(Add(Mul(e[0], v[1]), Mul(e[1], v[2])), Mul(e[2], v[3])), e[3]),
          Add(Add(Add(Mul(e[4], v[1]), Mul(e[5], v[2])), Mul(e[6], v[3])), e[7]),
          Add(Add(Add(Mul(e[8], v[1]), Mul(e[9], v[2])), Mul(e[10], v[3])), e[11]))

\* applyToVector3(v): the new Vector3 it returns
applyToVector3(e, v) ==
  Vector3(Add(Add(Add(Mul(e[0], v[1]), Mul(e[4], v[2])), Mul(e[8], v[3])), e[12]),
          Add(Add(Add(Mul(e[1], v[1]), Mul(e[5], v[2])), Mul(e[9], v[3])), e[13]),
          Add(Add(Add(Mul(e[2], v[1]), Mul(e[6], v[2])), Mul(e[10], v[3])), e[14]))

\* invert(): the sixteen cofactor sums inv[0..15], before the division by det
adjugate(m) ==
  Elements(<<
    \* inv[0]
    Sub(Add(Add(Sub(Sub(Mul(Mul(m[5], m[10]), m[15]),
        Mul(Mul(m[5], m[11]), m[14])),
        Mul(Mul(m[9], m[6]), m[15])),
        Mul(Mul(m[9], m[7]), m[14])),
        Mul(Mul(m[13], m[6]), m[11])),
        Mul(Mul(m[13], m[7]), m[10])),
    \* inv[1]
    Add(Sub(Sub(Add(Add(Mul(Mul(Neg(m[1]), m[10]), m[15]),
        Mul(Mul(m[1], m[11]), m[14])),
        Mul(Mul(m[9], m[2]), m[15])),
        Mul(Mul(m[9], m[3]), m[14])),
        Mul(Mul(m[13], m[2]), m[11])),
        Mul(Mul(m[13], m[3]), m[10])),
    \* inv[2]
    Sub(Add(Add(Sub(Sub(Mul(Mul(m[1], m[6]), m[15]),
        Mul(Mul(m[1], m[7]), m[14])),
        Mul(Mul(m[5], m[2]), m[15])),
        Mul(Mul(m[5], m[3]), m[14])),
        Mul(Mul(m[13], m[2]), m[7])),
        Mul(Mul(m[13], m[3]), m[6])),
    \* inv[3]
    Add(Sub(Sub(Add(Add(Mul(Mul(Neg(m[1]), m[6]), m[11]),
        Mul(Mul(m[1], m[7]), m[10])),
        Mul(Mul(m[5], m[2]), m[11])),
        Mul(Mul(m[5], m[3]), m[10])),
        Mul(Mul(m[9], m[2]), m[7])),
        Mul(Mul(m[9], m[3]), m[6])),
    \* inv[4]
    Add(Sub(Sub(Add(Add(Mul(Mul(Neg(m[4]), m[10]), m[15]),
        Mul(Mul(m[4], m[11]), m[14])),
        Mul(Mul(m[8], m[6]), m[15])),
        Mul(Mul(m[8], m[7]), m[14])),
        Mul(Mul(m[12], m[6]), m[11])),
        Mul(Mul(m[12], m[7]), m[10])),
    \* inv[5]
    Sub(Add(Add(Sub(Sub(Mul(Mul(m[0], m[10]), m[15]),
        Mul(Mul(m[0], m[11]), m[14])),
        Mul(Mul(m[8], m[2]), m[15])),
        Mul(Mul(m[8], m[3]), m[14])),
        Mul(Mul(m[12], m[2]), m[11])),
        Mul(Mul(m[12], m[3]), m[10])),
    \* inv[6]
    Add(Sub(Sub(Add(Add(Mul(Mul(Neg(m[0]), m[6]), m[15]),
        Mul(Mul(m[0], m[7]), m[14])),
        Mul(Mul(m[4], m[2]), m[15])),
        Mul(Mul(m[4], m[3]), m[14])),
        Mul(Mul(m[12], m[2]), m[7])),
        Mul(Mul(m[12], m[3]), m[6])),
    \* inv[7]
    Sub(Add(Add(Sub(Sub(Mul(Mul(m[0], m[6]), m[11]),
        Mul(Mul(m[0], m[7]), m[10])),
        Mul(Mul(m[4], m[2]), m[11])),
        Mul(Mul(m[4], m[3]), m[10])),
        Mul(Mul(m[8], m[2]), m[7])),
        Mul(Mul(m[8], m[3]), m[6])),
    \* inv[8]
    Sub(Add(Add(Sub(Sub(Mul(Mul(m[4], m[9]), m[15]),
        Mul(Mul(m[4], m[11]), m[13])),
        Mul(Mul(m[8], m[5]), m[15])),
        Mul(Mul(m[8], m[7]), m[13])),
        Mul(Mul(m[12], m[5]), m[11])),
        Mul(Mul(m[12], m[7]), m[9])),
    \* inv[9]
    Add(Sub(Sub(Add(Add(Mul(Mul(Neg(m[0]), m[9]), m[15]),
        Mul(Mul(m[0], m[11]), m[13])),
        Mul(Mul(m[8], m[1]), m[15])),
        Mul(Mul(m[8], m[3]), m[13])),
        Mul(Mul(m[12], m[1]), m[11])),
        Mul(Mul(m[12], m[3]), m[9])),
    \* inv[10]
    Sub(Add(Add(Sub(Sub(Mul(Mul(m[0], m[5]), m[15]),
        Mul(Mul(m[0], m[7]), m[13])),
        Mul(Mul(m[4], m[1]), m[15])),
        Mul(Mul(m[4], m[3]), m[13])),
        Mul(Mul(m[12], m[1]), m[7])),
        Mul(Mul(m[12], m[3]), m[5])),
    \* inv[11]
    Add(Sub(Sub(Add(Add(Mul(Mul(Neg(m[0]), m[5]), m[11]),
        Mul(Mul(m[0], m[7]), m[9])),
        Mul(Mul(m[4], m[1]), m[11])),
        Mul(Mul(m[4], m[3]), m[9])),
        Mul(Mul(m[8], m[1]), m[7])),
        Mul(Mul(m[8], m[3]), m[5])),
    \* inv[12]
    Add(Sub(Sub(Add(Add(Mul(Mul(Neg(m[4]), m[9]), m[14]),
        Mul(Mul(m[4], m[10]), m[13])),
        Mul(Mul(m[8], m[5]), m[14])),
        Mul(Mul(m[8], m[6]), m[13])),
        Mul(Mul(m[12], m[5]), m[10])),
        Mul(Mul(m[12], m[6]), m[9])),
    \* inv[13]
    Sub(Add(Add(Sub(Sub(Mul(Mul(m[0], m[9]), m[14]),
        Mul(Mul(m[0], m[10]), m[13])),
        Mul(Mul(m[8], m[1]), m[14])),
        Mul(Mul(m[8], m[2]), m[13])),
        Mul(Mul(m[12], m[1]), m[10])),
        Mul(Mul(m[12], m[2]), m[9])),
    \* inv[14]
    Add(Sub(Sub(Add(Add(Mul(Mul(Neg(m[0]), m[5]), m[14]),
        Mul(Mul(m[0], m[6]), m[13])),
        Mul(Mul(m[4], m[1]), m[14])),
        Mul(Mul(m[4], m[2]), m[13])),
        Mul(Mul(m[12], m[1]), m[6])),
        Mul(Mul(m[12], m[2]), m[5])),
    \* inv[15]
    Sub(Add(Add(Sub(Sub(Mul(Mul(m[0], m[5]), m[10]),
        Mul(Mul(m[0], m[6]), m[9])),
        Mul(Mul(m[4], m[1]), m[10])),
        Mul(Mul(m[4], m[2]), m[9])),
        Mul(Mul(m[8], m[1]), m[6])),
        Mul(Mul(m[8], m[2]), m[5]))>>)

\* the number of significand bits of a Float32Array element
SignificandBits == 24

\* the spacing of the float32 values around the natural number n: the least
\* power of two u, from u on, with n \div u below 2^24
RECURSIVE spacing(_, _)
spacing(n, u) == IF n \div u < 2^SignificandBits THEN u ELSE spacing(n, 2 * u)

\* the float32 nearest to the natural number n, ties to the even significand
nearestFloat32(n) ==
  Local(spacing(n, 1), LAMBDA u :
    IF 2 * (n % u) > u \/ (2 * (n % u) = u /\ (n \div u) % 2 = 1)
    THEN ((n \div u) + 1) * u
    ELSE (n \div u) * u)

\* the value a Float32Array element holds after a is assigned to it; the
\* rounding of integers is computed, a fraction is kept as it is
fround(a) ==
  IF a[2] = 1
  THEN IF a[1] < 0 THEN <<-nearestFloat32(-a[1]), 1>> ELSE <<nearestFloat32(a[1]), 1>>
  ELSE a

\* invert(): inv, the Float32Array(16) the sixteen cofactor sums are stored in
cofactors(m) == Local(adjugate(m), LAMBDA sums : [i \in 0..15 |-> fround(sums[i])])

\* invert(): det, from the first column of inv
invertDet(m, inv) ==
  Add(Add(Add(Mul(m[0], inv[0]), Mul(m[1], inv[4])), Mul(m[2], inv[8])),
      Mul(m[3], inv[12]))

\* invert() with the cofactors multiplied by det instead of 1 / det
Matrix4x4_invert_timesDet(m) ==
  Local(cofactors(m), LAMBDA inv :
  Local(invertDet(m, inv), LAMBDA d :
    IF d = R(0) THEN identity
    ELSE [i \in 0..15 |-> Mul(inv[i], d)]))

\* invert(): identity when det === 0, else every cofactor times 1 / det
Matrix4x4_invert(m) ==
  Local(cofactors(m), LAMBDA inv :
  Local(invertDet(m, inv), LAMBDA d :
    IF d = R(0) THEN identity
    ELSE Local(Div(R(1), d), LAMBDA invDet : [i \in 0..15 |-> Mul(inv[i], invDet)])))

\* transpose() with the swap of e[11] and e[14] left out
Matrix4x4_transpose_missedSwap(e) ==
  Elements(<<e[0], e[4], e[8],  e[12],
             e[1], e[5], e[9],  e[13],
             e[2], e[6], e[10], e[11],
             e[3], e[7], e[14], e[15]>>)

\* transpose(): the six swaps e[1]/e[4], e[2]/e[8], e[3]/e[12], e[6]/e[9],
\* e[7]/e[13], e[11]/e[14]
Matrix4x4_transpose(e) ==
  Elements(<<e[0], e[4], e[8],  e[12],
             e[1], e[5], e[9],  e[13],
             e[2], e[6], e[10], e[14],
             e[3], e[7], e[11], e[15]>>)

\* toArray(): Array.from(this.elements)
Matrix4x4_toArray(e) == [i \in 1..16 |-> e[i - 1]]

(***************************************************************************)
(* Matrix3x3: elements 0..8 in column-major order                          *)
(***************************************************************************)
\* the Float32Array(9) holding e[1], ..., e[9] at indices 0..8
Elements3(e) == [i \in 0..8 |-> e[i + 1]]

\* set(n11, ..., n33): row-major arguments n[1..9] into column-major storage
Matrix3x3_set(n) ==
  Elements3(<<n[1], n[4], n[7],
              n[2], n[5], n[8],
              n[3], n[6], n[9]>>)

Matrix3x3_identity ==
  Matrix3x3_set(<<R(1), R(0), R(0),
                  R(0), R(1), R(0),
                  R(0), R(0), R(1)>>)

Matrix3x3_determinant(e) ==
  Add(Sub(Mul(e[0], Sub(Mul(e[4], e[8]), Mul(e[5], e[7]))),
          Mul(e[1], Sub(Mul(e[3], e[8]), Mul(e[5], e[6])))),
      Mul(e[2], Sub(Mul(e[3], e[7]), Mul(e[4], e[6]))))

\* Math.abs(x) < 1e-10: a rational n/d with 0 < d < 2^31 is below 1e-10 only
\* when n = 0
LtTiny(x) == x[2] # 0 /\ x[1] = 0

\* invert() without the test of det
Matrix3x3_invert_unguarded(e) ==
  LET a00 == e[0]   a01 == e[1]   a02 == e[2]
      a10 == e[3]   a11 == e[4]   a12 == e[5]
      a20 == e[6]   a21 == e[7]   a22 == e[8]
  IN  Local(Sub(Mul(a22, a11), Mul(a12, a21)), LAMBDA b01 :
      Local(Add(Mul(Neg(a22), a10), Mul(a12, a20)), LAMBDA b11 :
      Local(Sub(Mul(a21, a10), Mul(a11, a20)), LAMBDA b21 :
      Local(Add(Add(Mul(a00, b01), Mul(a01, b11)), Mul(a02, b21)), LAMBDA d :
        Local(Div(R(1), d), LAMBDA det :
               Elements3(<<Mul(b01, det),
                           Mul(Add(Mul(Neg(a22), a01), Mul(a02, a21)), det),
                           Mul(Sub(Mul(a12, a01), Mul(a02, a11)), det),
                           Mul(b11, det),
                           Mul(Sub(Mul(a22, a00), Mul(a02, a20)), det),
                           Mul(Add(Mul(Neg(a12), a00), Mul(a02, a10)), det),
                           Mul(b21, det),
                           Mul(Add(Mul(Neg(a21), a00), Mul(a01, a20)), det),
                           Mul(Sub(Mul(a11, a00), Mul(a01, a10)), det)>>))))))

\* invert(): identity when |det| < 1e-10
Matrix3x3_invert(e) ==
  LET a00 == e[0]   a01 == e[1]   a02 == e[2]
      a10 == e[3]   a11 == e[4]   a12 == e[5]
      a20 == e[6]   a21 == e[7]   a22 == e[8]
  IN  Local(Sub(Mul(a22, a11), Mul(a12, a21)), LAMBDA b01 :
      Local(Add(Mul(Neg(a22), a10), Mul(a12, a20)), LAMBDA b11 :
      Local(Sub(Mul(a21, a10), Mul(a11, a20)), LAMBDA b21 :
      Local(Add(Add(Mul(a00, b01), Mul(a01, b11)), Mul(a02, b21)), LAMBDA d :
        IF LtTiny(d) THEN Matrix3x3_identity
        ELSE Local(Div(R(1), d), LAMBDA det :
               Elements3(<<Mul(b01, det),
                           Mul(Add(Mul(Neg(a22), a01), Mul(a02, a21)), det),
                           Mul(Sub(Mul(a12, a01), Mul(a02, a11)), det),
                           Mul(b11, det),
                           Mul(Sub(Mul(a22, a00), Mul(a02, a20)), det),
                           Mul(Add(Mul(Neg(a12), a00), Mul(a02, a10)), det),
                           Mul(b21, det),
                           Mul(Add(Mul(Neg(a21), a00), Mul(a01, a20)), det),
                           Mul(Sub(Mul(a11, a00), Mul(a01, a10)), det)>>))))))

(***************************************************************************)
(* Vector3 and Vector4: division by a scalar                               *)
(***************************************************************************)
Vector3_multiplyScalar(e, s) == <<Mul(e[1], s), Mul(e[2], s), Mul(e[3], s)>>

\* divideScalar(s): multiplyScalar(1 / s), or set(NaN, NaN, NaN) when s is 0
Vector3_divideScalar(e, s) ==
  IF s # R(0) THEN Vector3_multiplyScalar(e, Div(R(1), s))
  ELSE <<NaN, NaN, NaN>>

\* divideScalar(s): every element multiplied by inv = 1 / s
Vector4_divideScalar(e, s) ==
  Local(Div(R(1), s), LAMBDA inv :
    <<Mul(e[1], inv), Mul(e[2], inv), Mul(e[3], inv), Mul(e[4], inv)>>)

\* Vector3.normalize() without the test len > 0
Vector3_normalize_unguarded(e) == Vector3_divideScalar(e, Vector3_length(e))

\* Vector3.normalize(): divideScalar(len) when len = Math.hypot(x, y, z) > 0
Vector3_normalize(e) ==
  Local(Vector3_length(e), LAMBDA len :
    IF Gt(len, R(0)) THEN Vector3_divideScalar(e, len) ELSE e)

\* Vector4.length(): Math.sqrt(this.lengthSq())
Vector4_length(e) ==
  Sqrt(Add(Add(Add(Mul(e[1], e[1]), Mul(e[2], e[2])), Mul(e[3], e[3])), Mul(e[4], e[4])))

\* Vector4.normalize(): divideScalar(len) when len > 0
Vector4_normalize(e) ==
  Local(Vector4_length(e), LAMBDA len :
    IF Gt(len, R(0)) THEN Vector4_divideScalar(e, len) ELSE e)

(***************************************************************************)
(* Quaternion: methods on this.elements and the _onChange callback         *)
(***************************************************************************)
identityRotation == <<R(0), R(0), R(0), R(1)>>

negated(q) == <<Neg(q[1]), Neg(q[2]), Neg(q[3]), Neg(q[4])>>

Quaternion_dot(te, qe) ==
  Add(Add(Add(Mul(te[1], qe[1]), Mul(te[2], qe[2])), Mul(te[3], qe[3])),
      Mul(te[4], qe[4]))

\* the Hamilton product a * b
multiplyQuaternions(ae, be) ==
  LET ax == ae[1]   ay == ae[2]   az == ae[3]   aw == ae[4]
      bx == be[1]   by == be[2]   bz == be[3]   bw == be[4]
  IN  <<Sub(Add(Add(Mul(aw, bx), Mul(ax, bw)), Mul(ay, bz)), Mul(az, by)),
        Add(Add(Sub(Mul(aw, by), Mul(ax, bz)), Mul(ay, bw)), Mul(az, bx)),
        Add(Sub(Add(Mul(aw, bz), Mul(ax, by)), Mul(ay, bx)), Mul(az, bw)),
        Sub(Sub(Sub(Mul(aw, bw), Mul(ax, bx)), Mul(ay, by)), Mul(az, bz))>>

\* rotateVector3 with qz * y written z * y in the first product
rotateVector3_typo(q, v) ==
  LET x == v[1]    y == v[2]    z == v[3]
      qx == q[1]   qy == q[2]   qz == q[3]   qw == q[4]
  IN  Local(Sub(Add(Mul(qw, x), Mul(qy, z)), Mul(z, y)), LAMBDA ix :
      Local(Sub(Add(Mul(qw, y), Mul(qz, x)), Mul(qx, z)), LAMBDA iy :
      Local(Sub(Add(Mul(qw, z), Mul(qx, y)), Mul(qy, x)), LAMBDA iz :
      Local(Sub(Sub(Mul(Neg(qx), x), Mul(qy, y)), Mul(qz, z)), LAMBDA iw :
        <<Sub(Add(Add(Mul(ix, qw), Mul(iw, Neg(qx))), Mul(iy, Neg(qz))), Mul(iz, Neg(qy))),
          Sub(Add(Add(Mul(iy, qw), Mul(iw, Neg(qy))), Mul(iz, Neg(qx))), Mul(ix, Neg(qz))),
          Sub(Add(Add(Mul(iz, qw), Mul(iw, Neg(qz))), Mul(ix, Neg(qy))), Mul(iy, Neg(qx)))>>))))

\* rotateVector3(v): the components written to v
rotateVector3(q, v) ==
  LET x == v[1]    y == v[2]    z == v[3]
      qx == q[1]   qy == q[2]   qz == q[3]   qw == q[4]
  IN  Local(Sub(Add(Mul(qw, x), Mul(qy, z)), Mul(qz, y)), LAMBDA ix :
      Local(Sub(Add(Mul(qw, y), Mul(qz, x)), Mul(qx, z)), LAMBDA iy :
      Local(Sub(Add(Mul(qw, z), Mul(qx, y)), Mul(qy, x)), LAMBDA iz :
      Local(Sub(Sub(Mul(Neg(qx), x), Mul(qy, y)), Mul(qz, z)), LAMBDA iw :
        <<Sub(Add(Add(Mul(ix, qw), Mul(iw, Neg(qx))), Mul(iy, Neg(qz))), Mul(iz, Neg(qy))),
          Sub(Add(Add(Mul(iy, qw), Mul(iw, Neg(qy))), Mul(iz, Neg(qx))), Mul(ix, Neg(qz))),
          Sub(Add(Add(Mul(iz, qw), Mul(iw, Neg(qz))), Mul(ix, Neg(qy))), Mul(iy, Neg(qx)))>>))))

\* An angle is held as <<cos, sin>> of its half: Math.cos(angle / 2) and
\* Math.sin(angle / 2) read the two components, 2 * Math.acos(w) is the
\* angle whose half has cosine w and a sine that is not negative.
cosHalf(angle) == angle[1]

sinHalf(angle) == angle[2]

zeroAngle == <<R(1), R(0)>>

twiceAcos(w) ==
  IF IsNaN(w) \/ Gt(w, R(1)) \/ Lt(w, R(-1)) THEN <<NaN, NaN>>
  ELSE <<w, Sqrt(Sub(R(1), Mul(w, w)))>>

\* Math.sin(t * Math.acos(c)) for 0 <= c <= 1 and t in {0, 1/2, 1}:
\* sin(0) = 0, the half-angle formula, and sin(acos(c)) = sqrt(1 - c * c)
sinOfFraction(t, c) ==
  IF t = R(0) THEN R(0)
  ELSE IF t = R(1) THEN Sqrt(Sub(R(1), Mul(c, c)))
  ELSE IF t = Frac(1, 2) THEN Sqrt(Div(Sub(R(1), c), R(2)))
  ELSE NaN

\* The outcome of a method on a Quaternion: the elements it leaves and, in
\* order, the elements the callback sees at each this._onChange?.()
notify(e) == [elements |-> e, notified |-> <<e>>]

\* an outcome with no call of the callback
silent(e) == [elements |-> e, notified |-> <<>>]

\* a method that goes on with another method of the same receiver
andThen(r, F(_)) ==
  Local(F(r.elements), LAMBDA r2 :
    [elements |-> r2.elements, notified |-> r.notified \o r2.notified])

\* set x(v), set y(v), set z(v), set w(v)
Quaternion_setX(e, v) == notify(<<v, e[2], e[3], e[4]>>)

Quaternion_setY(e, v) == notify(<<e[1], v, e[3], e[4]>>)

Quaternion_setZ(e, v) == notify(<<e[1], e[2], v, e[4]>>)

Quaternion_setW(e, v) == notify(<<e[1], e[2], e[3], v>>)

Quaternion_set(x, y, z, w) == notify(<<x, y, z, w>>)

Quaternion_copy(qe) == notify(qe)

Quaternion_identity == Quaternion_set(R(0), R(0), R(0), R(1))

Quaternion_conjugate(e) == notify(<<Neg(e[1]), Neg(e[2]), Neg(e[3]), e[4]>>)

\* negate() without its this._onChange?.()
Quaternion_negate_silent(e) == silent(negated(e))

Quaternion_negate(e) == notify(negated(e))

\* normalize(): nothing is written and the callback is not called unless len > 0
Quaternion_normalize(e) ==
  IF Gt(length(e), R(0)) THEN notify(normalize(e)) ELSE silent(e)

Quaternion_invert(e) ==
  Local(lengthSq(e), LAMBDA lenSq :
    IF Gt(lenSq, R(0))
    THEN Local(Div(R(1), lenSq), LAMBDA inv :
           notify(<<Mul(Neg(e[1]), inv), Mul(Neg(e[2]), inv),
                    Mul(Neg(e[3]), inv), Mul(e[4], inv)>>))
    ELSE silent(e))

Quaternion_multiply(e, be) == notify(multiplyQuaternions(e, be))

Quaternion_multiplyQuaternions(ae, be) == notify(multiplyQuaternions(ae, be))

Quaternion_setFromArray(arr, offset) ==
  notify(<<arr[offset + 1], arr[offset + 2], arr[offset + 3], arr[offset + 4]>>)

\* setFromAxisAngle(axis, angle): set(...) and then normalize()
Quaternion_setFromAxisAngle(axis, angle) ==
  Local(sinHalf(angle), LAMBDA s :
    andThen(Quaternion_set(Mul(axis[1], s), Mul(axis[2], s), Mul(axis[3], s),
                           cosHalf(angle)),
            Quaternion_normalize))

\* setFromEuler(x, y, z): set(...) and then normalize()
Quaternion_setFromEuler(x, y, z) ==
  LET c1 == cosHalf(x)   c2 == cosHalf(y)   c3 == cosHalf(z)
      s1 == sinHalf(x)   s2 == sinHalf(y)   s3 == sinHalf(z)
  IN  andThen(Quaternion_set(Add(Mul(Mul(s1, c2), c3), Mul(Mul(c1, s2), s3)),
                             Sub(Mul(Mul(c1, s2), c3), Mul(Mul(s1, c2), s3)),
                             Add(Mul(Mul(c1, c2), s3), Mul(Mul(s1, s2), c3)),
                             Sub(Mul(Mul(c1, c2), c3), Mul(Mul(s1, s2), s3))),
              Quaternion_normalize)

\* setFromRotationMatrix(m): this.w = ..., this.x = ..., this.y = ...,
\* this.z = ... through the four setters, and then normalize()
Quaternion_setFromRotationMatrix(e, te) ==
  Local(rotationRaw(te), LAMBDA raw :
    andThen(andThen(andThen(andThen(Quaternion_setW(e, raw[4]),
                                    LAMBDA e1 : Quaternion_setX(e1, raw[1])),
                            LAMBDA e2 : Quaternion_setY(e2, raw[2])),
                    LAMBDA e3 : Quaternion_setZ(e3, raw[3])),
            Quaternion_normalize))

\* a >= b; every comparison with NaN is false
Ge(a, b) == ~IsNaN(a) /\ ~IsNaN(b) /\ ~Lt(a, b)

\* Math.abs
Fabs(a) == <<Abs(a[1]), a[2]>>

\* slerp: <<ratioB, ratioA>>, the two weights exchanged
slerpRatios_swapped(t, cosHalfTheta, sinHalfTheta) ==
  <<Div(sinOfFraction(t, cosHalfTheta), sinHalfTheta),
    Div(sinOfFraction(Sub(R(1), t), cosHalfTheta), sinHalfTheta)>>

\* slerp: <<ratioA, ratioB>> = sin((1 - t) * halfTheta) / sinHalfTheta and
\* sin(t * halfTheta) / sinHalfTheta, with halfTheta = Math.acos(cosHalfTheta)
slerpRatios(t, cosHalfTheta, sinHalfTheta) ==
  <<Div(sinOfFraction(Sub(R(1), t), cosHalfTheta), sinHalfTheta),
    Div(sinOfFraction(t, cosHalfTheta), sinHalfTheta)>>

\* slerp after the sign of the dot product is settled: b is (bx, by, bz, bw)
slerpToward(e, b, cosHalfTheta, t) ==
  IF Ge(cosHalfTheta, R(1)) THEN silent(e)
  ELSE Local(Sqrt(Sub(R(1), Mul(cosHalfTheta, cosHalfTheta))), LAMBDA sinHalfTheta :
         IF Lt(Fabs(sinHalfTheta), Frac(1, 1000))
         THEN Local(Sub(R(1), t), LAMBDA u :
                andThen(notify(<<Add(Mul(e[1], u), Mul(b[1], t)),
                                 Add(Mul(e[2], u), Mul(b[2], t)),
                                 Add(Mul(e[3], u), Mul(b[3], t)),
                                 Add(Mul(e[4], u), Mul(b[4], t))>>),
                        Quaternion_normalize))
         ELSE Local(slerpRatios(t, cosHalfTheta, sinHalfTheta), LAMBDA ratio :
                notify(<<Add(Mul(e[1], ratio[1]), Mul(b[1], ratio[2])),
                         Add(Mul(e[2], ratio[1]), Mul(b[2], ratio[2])),
                         Add(Mul(e[3], ratio[1]), Mul(b[3], ratio[2])),
                         Add(Mul(e[4], ratio[1]), Mul(b[4], ratio[2]))>>)))

\* slerp with cosHalfTheta negated and bx, by, bz, bw left as they are
Quaternion_slerp_longArc(e, eb, t) ==
  Local(Quaternion_dot(e, eb), LAMBDA cosHalfTheta :
    IF Lt(cosHalfTheta, R(0))
    THEN slerpToward(e, eb, Neg(cosHalfTheta), t)
    ELSE slerpToward(e, eb, cosHalfTheta, t))

\* slerp(qb, t)
Quaternion_slerp(e, eb, t) ==
  Local(Quaternion_dot(e, eb), LAMBDA cosHalfTheta :
    IF Lt(cosHalfTheta, R(0))
    THEN slerpToward(e, negated(eb), Neg(cosHalfTheta), t)
    ELSE slerpToward(e, eb, cosHalfTheta, t))

\* qb negated in place when the dot product is negative
slerpTarget_negatedInPlace(e, eb, t) ==
  IF Lt(Quaternion_dot(e, eb), R(0)) THEN negated(eb) ELSE eb

\* the elements of qb after slerp(qb, t): eb[0..3] are read into bx, by, bz,
\* bw, the negation is applied to those, and only e[0..3] are assigned
slerpTarget(e, eb, t) == eb

\* toAxisAngle(): normalize() first when w > 1; returned is {axis, angle}
Quaternion_toAxisAngle(e) ==
  Local(IF Gt(e[4], R(1)) THEN Quaternion_normalize(e) ELSE silent(e), LAMBDA r :
  Local(r.elements, LAMBDA n :
  Local(Sqrt(Sub(R(1), Mul(n[4], n[4]))), LAMBDA s :
    [elements |-> n,
     notified |-> r.notified,
     returned |-> IF Lt(s, Frac(1, 1000))
                  THEN [axis |-> Vector3(R(1), R(0), R(0)), angle |-> twiceAcos(n[4])]
                  ELSE [axis |-> Vector3(Div(n[1], s), Div(n[2], s), Div(n[3], s)),
                        angle |-> twiceAcos(n[4])]])))

(***************************************************************************)
(* equals(other, epsilon)                                                  *)
(***************************************************************************)
\* Vector3.equals: Math.abs(this.x - v.x) < epsilon && ... for x, y, z
Vector3_equals(e, f, epsilon) ==
  /\ Lt(Fabs(Sub(e[1], f[1])), epsilon)
  /\ Lt(Fabs(Sub(e[2], f[2])), epsilon)
  /\ Lt(Fabs(Sub(e[3], f[3])), epsilon)

\* Quaternion.equals: Math.abs(e[i] - f[i]) < epsilon for the four elements
Quaternion_equals(e, f, epsilon) ==
  /\ Lt(Fabs(Sub(e[1], f[1])), epsilon)
  /\ Lt(Fabs(Sub(e[2], f[2])), epsilon)
  /\ Lt(Fabs(Sub(e[3], f[3])), epsilon)
  /\ Lt(Fabs(Sub(e[4], f[4])), epsilon)

\* Matrix4x4.equals: false at the first i with Math.abs(te[i] - me[i]) > epsilon
Matrix4x4_equals(te, me, epsilon) ==
  ~\E i \in 0..15 : Gt(Fabs(Sub(te[i], me[i])), epsilon)

(***************************************************************************)
(* Inputs                                                                  *)
(***************************************************************************)
\* unit quaternions with rational components of denominator at most QDen
UnitQuaternions ==
  UNION {{<<Frac(a, n), Frac(b, n), Frac(c, n), Frac(d, n)>> :
            <<a, b, c, d>> \in {t \in (-n..n) \X (-n..n) \X (-n..n) \X (-n..n) :
                                 t[1]*t[1] + t[2]*t[2] + t[3]*t[3] + t[4]*t[4] = n*n}} :
         n \in 1..QDen}

Positions == {Vector3(R(x), R(2), R(-3)) : x \in 0..PosMax}

Scales == {Vector3(R(a), R(b), R(c)) : a, b, c \in (-ScaleMax)..ScaleMax}

\* Sqrt(a) is the value of Math.sqrt: NaN, Infinity, or the exact root
rootFaithful(a) == a[2] = 0 \/ a[1] < 0 \/ SqrtExact(a)

\* every square root setFromRotationMatrix(te) takes is exact
rotationExact(te) ==
  /\ rootFaithful(rotationRadicand(te))
  /\ rootFaithful(lengthSq(rotationRaw(te)))

\* every square root decompose takes on te is exact
decomposeExact(te) ==
  /\ SqrtExact(Add(Add(Mul(te[0], te[0]), Mul(te[1], te[1])), Mul(te[2], te[2])))
  /\ SqrtExact(Add(Add(Mul(te[4], te[4]), Mul(te[5], te[5])), Mul(te[6], te[6])))
  /\ SqrtExact(Add(Add(Mul(te[8], te[8]), Mul(te[9], te[9])), Mul(te[10], te[10])))
  /\ rotationExact(rotationBasis(te))

\* the matrix set(b11, b12, b13, px, b21, b22, b23, py, b31, b32, b33, pz, 0, 0, 0, 1)
fromBlock(b, p) ==
  set(<<R(b[1]), R(b[2]), R(b[3]), p[1],
        R(b[4]), R(b[5]), R(b[6]), p[2],
        R(b[7]), R(b[8]), R(b[9]), p[3],
        R(0), R(0), R(0), R(1)>>)

origin == Vector3(R(0), R(0), R(0))

\* rotation and scale inputs of compose
Transforms ==
  {t \in UnitQuaternions \X Scales : decomposeExact(compose(origin, t[1], t[2]))}

\* the nine entries of a linear block given to set(), row-major
Entries == {-1, 0, 1}

\* linear blocks with non-orthogonal columns of integer length
ShearedBlocks ==
  {<< 0,  3, -4,
     -4,  0,  3,
     -3,  0,  0>>,
   << 0,  4, -3,
      4,  0,  4,
      0, -3,  0>>,
   << 0,  0, -3,
      3,  0,  4,
      4, -2,  0>>,
   << 0, -3,  0,
     -4,  0, -3,
      3,  4,  0>>}

\* blocks decompose is applied to: zero, mirrored, orthogonal and sheared
DecomposeBlocks ==
  {b \in [1..9 -> Entries] : decomposeExact(fromBlock(b, origin))} \cup ShearedBlocks

\* the largest magnitude of a diagonal entry of the diagonal blocks
DiagMax == 3

\* diagonal blocks: every order of the diagonal entries, ties included
DiagonalBlocks ==
  {<<a, 0, 0,
     0, b, 0,
     0, 0, c>> : a, b, c \in (-DiagMax)..DiagMax}

\* blocks setFromRotationMatrix is applied to directly
RotationBlocks ==
  {b \in [1..9 -> Entries] \cup DiagonalBlocks :
     rotationExact(fromBlock(b, origin))}

(***************************************************************************)
(* State                                                                   *)
(***************************************************************************)
VARIABLES
  mode,         \* "trs": the matrix is composed and decomposed;
                \* "elements": it is set() and decomposed;
                \* "rotation": it is set() and given to setFromRotationMatrix;
                \* "quaternion": it is setFromRotationQuaternion(rotation)
                \* and given to setFromRotationMatrix
  position,     \* input translation
  rotation,     \* input unit quaternion
  scale,        \* input scale
  block,        \* input linear block for set()
  m,            \* elements of the matrix under test
  built,        \* the matrix has been written by compose or set
  det,          \* result of determinant(), <<>> before the call
  outPosition,  \* output arguments of decompose
  outRotation,
  outScale,
  decomposed,   \* decompose has run on m
  extracted,    \* outRotation was written by setFromRotationMatrix(m)
  m2,           \* elements of the recomposed matrix
  recomposed,   \* compose(outPosition, outRotation, outScale) has run
  kind,         \* class of the object that methods are called on: "Quaternion",
                \* "Matrix4x4", "Matrix3x3", "Vector3", "Vector4"; "none" when
                \* the matrix m above is the one under test
  elements,     \* this.elements of that object
  onChange,     \* a callback is registered in this._onChange
  notified,     \* the elements the callback saw, call by call, during the last method
  before,       \* this.elements when the last method was called
  lastOp,       \* name of the last method called, "" before the first
  lastArgs,     \* its arguments
  argsAfter,    \* its arguments as the method left them
  returned,     \* what it returned, <<>> when it returned the receiver
  opCount,      \* number of methods called so far
  pc,           \* where a decompose call on that object stands: "ready", then
                \* "w", "x", "y", "z" (the setter about to run in
                \* setFromRotationMatrix), "normalize", "scale", "done";
                \* "none" when no decompose call is followed step by step
  frame,        \* the temporaries of that call
  other,        \* another matrix and the three objects its decompose writes
  nestedCalls   \* decompose calls made on it from the quaternion's callback

pipelineVars == <<mode, position, rotation, scale, block, m, built, det,
                  outPosition, outRotation, outScale, decomposed, extracted, m2,
                  recomposed>>

frameVars == <<pc, frame, other, nestedCalls>>

objectVars == <<kind, elements, onChange, notified, before, lastOp, lastArgs,
                argsAfter, returned, opCount, frameVars>>

\* no decompose call is followed step by step
NoFrame ==
  /\ pc = "none"
  /\ frame = <<>>
  /\ other = <<>>
  /\ nestedCalls = 0

vars == <<pipelineVars, objectVars>>

\* no object other than the matrix m is under test
NoObject ==
  /\ kind = "none"
  /\ elements = <<>>
  /\ onChange = FALSE
  /\ notified = <<>>
  /\ before = <<>>
  /\ lastOp = ""
  /\ lastArgs = <<>>
  /\ argsAfter = <<>>
  /\ returned = <<>>
  /\ opCount = 0
  /\ NoFrame

identityBlock == <<1, 0, 0, 0, 1, 0, 0, 0, 1>>

Init ==
  /\ mode \in {"trs", "elements", "rotation", "quaternion"}
  /\ position \in Positions
  /\ IF mode = "trs"
     THEN /\ \E t \in Transforms : rotation = t[1] /\ scale = t[2]
          /\ block = identityBlock
     ELSE IF mode = "quaternion"
     THEN /\ rotation \in UnitQuaternions
          /\ scale = Vector3(R(1), R(1), R(1))
          /\ block = identityBlock
     ELSE /\ rotation = <<R(0), R(0), R(0), R(1)>>
          /\ scale = Vector3(R(1), R(1), R(1))
          /\ block \in IF mode = "elements" THEN DecomposeBlocks ELSE RotationBlocks
  /\ m = identity
  /\ built = FALSE
  /\ det = <<>>
  /\ outPosition = origin
  /\ outRotation = <<R(0), R(0), R(0), R(1)>>
  /\ outScale = origin
  /\ decomposed = FALSE
  /\ extracted = FALSE
  /\ m2 = identity
  /\ recomposed = FALSE
  /\ NoObject

\* m.compose(position, rotation, scale)
Compose ==
  /\ mode = "trs"
  /\ ~built
  /\ m' = compose(position, rotation, scale)
  /\ built' = TRUE
  /\ UNCHANGED <<mode, position, rotation, scale, block, det, outPosition,
                 outRotation, outScale, decomposed, extracted, m2, recomposed>>
  /\ UNCHANGED objectVars

\* m.set(b11, b12, b13, px, b21, b22, b23, py, b31, b32, b33, pz, 0, 0, 0, 1)
SetElements ==
  /\ mode \in {"elements", "rotation"}
  /\ ~built
  /\ m' = fromBlock(block, position)
  /\ built' = TRUE
  /\ UNCHANGED <<mode, position, rotation, scale, block, det, outPosition,
                 outRotation, outScale, decomposed, extracted, m2, recomposed>>
  /\ UNCHANGED objectVars

\* m.setFromRotationQuaternion(rotation)
SetFromRotationQuaternion ==
  /\ mode = "quaternion"
  /\ ~built
  /\ m' = setFromRotationQuaternion(rotation)
  /\ built' = TRUE
  /\ UNCHANGED <<mode, position, rotation, scale, block, det, outPosition,
                 outRotation, outScale, decomposed, extracted, m2, recomposed>>
  /\ UNCHANGED objectVars

\* det = m.determinant()
Determinant ==
  /\ built
  /\ det = <<>>
  /\ ~decomposed
  /\ ~extracted
  /\ det' = determinant(m)
  /\ UNCHANGED <<mode, position, rotation, scale, block, m, built, outPosition,
                 outRotation, outScale, decomposed, extracted, m2, recomposed>>
  /\ UNCHANGED objectVars

\* m.decompose(outPosition, outRotation, outScale)
Decompose ==
  /\ mode \in {"trs", "elements"}
  /\ built
  /\ det # <<>>
  /\ ~decomposed
  /\ ~extracted
  /\ \E out \in {decompose(m)} :
       /\ outPosition' = out.position
       /\ outRotation' = out.quaternion
       /\ outScale' = out.scale
  /\ decomposed' = TRUE
  /\ UNCHANGED <<mode, position, rotation, scale, block, m, built, det,
                 extracted, m2, recomposed>>
  /\ UNCHANGED objectVars

\* outRotation.setFromRotationMatrix(m)
SetFromRotationMatrix ==
  /\ mode \in {"rotation", "quaternion"}
  /\ built
  /\ det # <<>>
  /\ ~decomposed
  /\ ~extracted
  /\ outRotation' = setFromRotationMatrix(m)
  /\ extracted' = TRUE
  /\ UNCHANGED <<mode, position, rotation, scale, block, m, built, det,
                 outPosition, outScale, decomposed, m2, recomposed>>
  /\ UNCHANGED objectVars

\* m2.compose(outPosition, outRotation, outScale)
Recompose ==
  /\ decomposed
  /\ ~recomposed
  /\ m2' = compose(outPosition, outRotation, outScale)
  /\ recomposed' = TRUE
  /\ UNCHANGED <<mode, position, rotation, scale, block, m, built, det,
                 outPosition, outRotation, outScale, decomposed, extracted>>
  /\ UNCHANGED objectVars

Next ==
  \/ Compose
  \/ SetElements
  \/ SetFromRotationQuaternion
  \/ Determinant
  \/ Decompose
  \/ SetFromRotationMatrix
  \/ Recompose

Spec == Init /\ [][Next]_vars

\* every square root taken by the operations applied to m is exact
RootsExact ==
  built => IF mode \in {"rotation", "quaternion"} THEN rotationExact(m)
           ELSE decomposeExact(m)

(***************************************************************************)
(* Objects and the methods called on them                                  *)
(***************************************************************************)
\* methods called on one Quaternion or vector
MaxCalls == 2

\* methods called on one matrix
MaxMatrixCalls == 1

\* the matrix m is not under test
NoPipeline ==
  /\ mode = "calls"
  /\ position = origin
  /\ rotation = identityRotation
  /\ scale = Vector3(R(1), R(1), R(1))
  /\ block = identityBlock
  /\ m = identity
  /\ built = FALSE
  /\ det = <<>>
  /\ outPosition = origin
  /\ outRotation = identityRotation
  /\ outScale = origin
  /\ decomposed = FALSE
  /\ extracted = FALSE
  /\ m2 = identity
  /\ recomposed = FALSE

\* receivers: unit, negated, zero and non-unit quaternions
QuaternionStarts ==
  {identityRotation,
   <<R(0), R(0), R(0), R(-1)>>,
   <<R(0), R(0), R(0), R(0)>>,
   <<R(0), R(0), R(0), R(2)>>,
   <<Frac(1, 2), Frac(1, 2), Frac(1, 2), Frac(1, 2)>>,
   <<R(0), R(1), R(0), R(0)>>,
   <<R(1), R(2), R(2), R(4)>>}

\* quaternion arguments of copy, multiply and compose: unit and not
QuaternionArgs ==
  {identityRotation,
   <<Frac(1, 2), Frac(1, 2), Frac(-1, 2), Frac(1, 2)>>,
   <<Frac(2, 3), Frac(-2, 3), R(0), Frac(1, 3)>>,
   <<R(1), R(2), R(0), R(-1)>>}

\* targets of slerp: equal, opposite, orthogonal, and at an angle whose
\* half and quarter have rational sines and cosines
SlerpTargets ==
  {identityRotation,
   <<R(0), R(0), R(0), R(-1)>>,
   <<R(0), R(1), R(0), R(0)>>,
   <<Frac(24, 25), R(0), R(0), Frac(7, 25)>>,
   <<Frac(24, 25), R(0), R(0), Frac(-7, 25)>>,
   <<R(0), Frac(-7, 25), Frac(24, 25), R(0)>>}

SlerpRatios == {R(0), Frac(1, 2), R(1)}

\* angles, as <<cos, sin>> of their halves: 0, pi, 2 pi, and 2 atan(3/4)
Angles == {zeroAngle, <<R(0), R(1)>>, <<R(-1), R(0)>>, <<Frac(4, 5), Frac(3, 5)>>}

Axes == {Vector3(R(1), R(0), R(0)), Vector3(R(0), Frac(3, 5), Frac(-4, 5))}

NewComponents == {R(0), R(2)}

Arrays == {<<R(9), R(1), R(2), R(3), R(4)>>}

Offsets == {0, 1}

CallPositions == {origin, Vector3(R(1), R(2), R(-3))}

CallScales == {Vector3(R(1), R(1), R(1)), Vector3(R(2), R(-1), R(3)), Vector3(R(0), R(2), R(1))}

zeroBlock == <<0, 0, 0, 0, 0, 0, 0, 0, 0>>

OffDiagonal == {0, 1}

\* linear blocks of the matrices methods are called on: unit diagonal with
\* any off-diagonal entries, sheared, and zero
CallBlocks ==
  {<<1, a, b, c, 1, d, e, f, 1>> : a, b, c, d, e, f \in OffDiagonal}
    \cup ShearedBlocks \cup {zeroBlock}

BottomRows == {<<R(0), R(0), R(0), R(1)>>, <<R(1), R(0), R(-1), R(2)>>}

\* the matrix set(b11, b12, b13, px, ..., r1, r2, r3, r4)
fromRows(b, p, r) ==
  set(<<R(b[1]), R(b[2]), R(b[3]), p[1],
        R(b[4]), R(b[5]), R(b[6]), p[2],
        R(b[7]), R(b[8]), R(b[9]), p[3],
        r[1], r[2], r[3], r[4]>>)

\* set(1, 2, ..., 16)
countingMatrix ==
  set(<<R(1), R(2), R(3), R(4), R(5), R(6), R(7), R(8),
        R(9), R(10), R(11), R(12), R(13), R(14), R(15), R(16)>>)

\* a singular matrix with a cofactor above 2^24:
\* set(1, 3, 0, 0, 3, 9, 0, 0, 0, 0, 4194305, 0, 0, 0, 0, 1)
largeCofactorMatrix ==
  set(<<R(1), R(3), R(0), R(0),
        R(3), R(9), R(0), R(0),
        R(0), R(0), R(4194305), R(0),
        R(0), R(0), R(0), R(1)>>)

Matrices4 ==
  {fromRows(b, Vector3(R(1), R(2), R(-3)), r) : b \in CallBlocks, r \in BottomRows}
    \cup {countingMatrix, largeCofactorMatrix}

\* the elements are within the range in which the products invert() forms
\* of three of them are computed here: below 2^24 in magnitude
invertInRange(te) ==
  \A i \in 0..15 : Abs(te[i][1]) < 2^SignificandBits /\ te[i][2] < 2^SignificandBits

Matrices3 ==
  {Matrix3x3_set(<<R(b[1]), R(b[2]), R(b[3]), R(b[4]), R(b[5]), R(b[6]),
                   R(b[7]), R(b[8]), R(b[9])>>) : b \in CallBlocks}

Vectors3 == {origin, Vector3(R(1), R(-2), R(3)), Vector3(R(2), R(-1), R(2)),
             Vector3(R(0), R(3), R(-4))}

Vectors4 == {<<R(0), R(0), R(0), R(1)>>, <<R(1), R(2), R(3), R(4)>>,
             <<R(-1), R(0), R(2), R(0)>>, <<R(0), R(0), R(0), R(0)>>,
             <<R(1), R(-2), R(2), R(4)>>}

Scalars == {R(0), R(2)}

InitCalls ==
  /\ NoPipeline
  /\ kind \in {"Quaternion", "Matrix4x4", "Matrix3x3", "Vector3", "Vector4"}
  /\ elements \in CASE kind = "Quaternion" -> QuaternionStarts
                    [] kind = "Matrix4x4"  -> Matrices4
                    [] kind = "Matrix3x3"  -> Matrices3
                    [] kind = "Vector3"    -> Vectors3
                    [] kind = "Vector4"    -> Vectors4
  /\ onChange = FALSE
  /\ notified = <<>>
  /\ before = <<>>
  /\ lastOp = ""
  /\ lastArgs = <<>>
  /\ argsAfter = <<>>
  /\ returned = <<>>
  /\ opCount = 0
  /\ NoFrame

\* a method named op is called with args on the receiver: r is its outcome,
\* ret what it returns, and after the arguments as the method leaves them
CallWriting(op, args, after, r, ret) ==
  /\ before' = elements
  /\ elements' = r.elements
  /\ notified' = IF onChange THEN r.notified ELSE <<>>
  /\ lastOp' = op
  /\ lastArgs' = args
  /\ argsAfter' = after
  /\ returned' = ret
  /\ opCount' = opCount + 1
  /\ UNCHANGED <<kind, onChange>>
  /\ UNCHANGED frameVars
  /\ UNCHANGED pipelineVars

\* a method that writes to none of its arguments
Call(op, args, r, ret) == CallWriting(op, args, args, r, ret)

OnQuaternion == kind = "Quaternion" /\ opCount < MaxCalls

OnMatrix(k) == kind = k /\ opCount < MaxMatrixCalls

\* q.onChange(callback)
CallOnChange ==
  /\ kind = "Quaternion"
  /\ ~onChange
  /\ onChange' = TRUE
  /\ before' = elements
  /\ notified' = <<>>
  /\ lastOp' = "onChange"
  /\ lastArgs' = <<>>
  /\ argsAfter' = <<>>
  /\ returned' = <<>>
  /\ UNCHANGED <<kind, elements, opCount>>
  /\ UNCHANGED frameVars
  /\ UNCHANGED pipelineVars

\* the square root normalize() takes is exact
normalizeExact(e) == SqrtExact(lengthSq(e))

\* the square roots slerp(qb, t) takes are exact
slerpExact(e, eb, t) ==
  Local(Fabs(Quaternion_dot(e, eb)), LAMBDA c :
    \/ Ge(c, R(1))
    \/ /\ SqrtExact(Sub(R(1), Mul(c, c)))
       /\ t \in {R(0), R(1)} \/ SqrtExact(Div(Sub(R(1), c), R(2))))

\* the square roots toAxisAngle() takes are exact
toAxisAngleExact(e) ==
  IF Gt(e[4], R(1))
  THEN /\ normalizeExact(e)
       /\ SqrtExact(Sub(R(1), Mul(normalize(e)[4], normalize(e)[4])))
  ELSE SqrtExact(Sub(R(1), Mul(e[4], e[4])))

\* matrices given to setFromRotationMatrix: rotations, and the zero block
RotationArgs ==
  {setFromRotationQuaternion(q) : q \in {identityRotation,
                                          <<Frac(1, 2), Frac(1, 2), Frac(-1, 2), Frac(1, 2)>>,
                                          <<R(0), R(1), R(0), R(0)>>}}
    \cup {fromBlock(zeroBlock, origin)}

CallSetX ==
  /\ OnQuaternion
  /\ \E v \in NewComponents : Call("x", <<v>>, Quaternion_setX(elements, v), <<>>)

CallSetY ==
  /\ OnQuaternion
  /\ \E v \in NewComponents : Call("y", <<v>>, Quaternion_setY(elements, v), <<>>)

CallSetZ ==
  /\ OnQuaternion
  /\ \E v \in NewComponents : Call("z", <<v>>, Quaternion_setZ(elements, v), <<>>)

CallSetW ==
  /\ OnQuaternion
  /\ \E v \in NewComponents : Call("w", <<v>>, Quaternion_setW(elements, v), <<>>)

CallSet ==
  /\ OnQuaternion
  /\ \E a \in QuaternionArgs :
       Call("set", a, Quaternion_set(a[1], a[2], a[3], a[4]), <<>>)

CallCopy ==
  /\ OnQuaternion
  /\ \E a \in QuaternionArgs : Call("copy", <<a>>, Quaternion_copy(a), <<>>)

CallIdentity ==
  /\ OnQuaternion
  /\ Call("identity", <<>>, Quaternion_identity, <<>>)

CallConjugate ==
  /\ OnQuaternion
  /\ Call("conjugate", <<>>, Quaternion_conjugate(elements), <<>>)

CallNegate ==
  /\ OnQuaternion
  /\ Call("negate", <<>>, Quaternion_negate(elements), <<>>)

CallNormalize ==
  /\ OnQuaternion
  /\ normalizeExact(elements)
  /\ Call("normalize", <<>>, Quaternion_normalize(elements), <<>>)

CallInvert ==
  /\ OnQuaternion
  /\ Call("invert", <<>>, Quaternion_invert(elements), <<>>)

CallMultiply ==
  /\ OnQuaternion
  /\ \E a \in QuaternionArgs :
       Call("multiply", <<a>>, Quaternion_multiply(elements, a), <<>>)

CallMultiplyQuaternions ==
  /\ OnQuaternion
  /\ \E a \in {elements, identityRotation} : \E b \in QuaternionArgs :
       Call("multiplyQuaternions", <<a, b>>, Quaternion_multiplyQuaternions(a, b), <<>>)

CallSlerp ==
  /\ OnQuaternion
  /\ \E qb \in SlerpTargets : \E t \in SlerpRatios :
       /\ slerpExact(elements, qb, t)
       /\ CallWriting("slerp", <<qb, t>>, <<slerpTarget(elements, qb, t), t>>,
                      Quaternion_slerp(elements, qb, t), <<>>)

CallSetFromAxisAngle ==
  /\ OnQuaternion
  /\ \E axis \in Axes : \E angle \in Angles :
       /\ normalizeExact(Quaternion_setFromAxisAngle(axis, angle).notified[1])
       /\ Call("setFromAxisAngle", <<axis, angle>>,
               Quaternion_setFromAxisAngle(axis, angle), <<>>)

CallSetFromEuler ==
  /\ OnQuaternion
  /\ \E x \in Angles : \E y \in {zeroAngle, <<Frac(4, 5), Frac(3, 5)>>} :
     \E z \in {zeroAngle, <<R(0), R(1)>>} :
       /\ normalizeExact(Quaternion_setFromEuler(x, y, z).notified[1])
       /\ Call("setFromEuler", <<x, y, z>>, Quaternion_setFromEuler(x, y, z), <<>>)

CallSetFromRotationMatrix ==
  /\ OnQuaternion
  /\ \E te \in RotationArgs :
       /\ rotationExact(te)
       /\ Call("setFromRotationMatrix", <<te>>,
               Quaternion_setFromRotationMatrix(elements, te), <<>>)

CallSetFromArray ==
  /\ OnQuaternion
  /\ \E arr \in Arrays : \E offset \in Offsets :
       Call("setFromArray", <<arr, offset>>, Quaternion_setFromArray(arr, offset), <<>>)

CallToAxisAngle ==
  /\ OnQuaternion
  /\ toAxisAngleExact(elements)
  /\ Call("toAxisAngle", <<>>, Quaternion_toAxisAngle(elements),
          Quaternion_toAxisAngle(elements).returned)

\* q.rotateVector3(v): v is written, the receiver is not
CallRotateVector3 ==
  /\ OnQuaternion
  /\ \E v \in Vectors3 \cup Axes :
       CallWriting("rotateVector3", <<v>>, <<rotateVector3(elements, v)>>,
                   silent(elements), rotateVector3(elements, v))

\* m.compose(position, quaternion, scale)
CallCompose ==
  /\ OnMatrix("Matrix4x4")
  /\ \E p \in CallPositions : \E q \in QuaternionArgs : \E s \in CallScales :
       Call("compose", <<p, q, s>>, silent(compose(p, q, s)), <<>>)

\* m.setFromRotationQuaternion(q)
CallSetFromRotationQuaternion ==
  /\ OnMatrix("Matrix4x4")
  /\ \E q \in QuaternionArgs :
       Call("setFromRotationQuaternion", <<q>>, silent(setFromRotationQuaternion(q)), <<>>)

\* m.invert() on a Matrix4x4
CallMatrix4x4Invert ==
  /\ OnMatrix("Matrix4x4")
  /\ invertInRange(elements)
  /\ Call("invert", <<>>, silent(Matrix4x4_invert(elements)), <<>>)

\* m.invert() on a Matrix3x3
CallMatrix3x3Invert ==
  /\ OnMatrix("Matrix3x3")
  /\ Call("invert", <<>>, silent(Matrix3x3_invert(elements)), <<>>)

\* v.divideScalar(s) on a Vector3
CallVector3DivideScalar ==
  /\ kind = "Vector3"
  /\ opCount < MaxCalls
  /\ \E s \in Scalars :
       Call("divideScalar", <<s>>, silent(Vector3_divideScalar(elements, s)), <<>>)

\* v.divideScalar(s) on a Vector4
CallVector4DivideScalar ==
  /\ kind = "Vector4"
  /\ opCount < MaxCalls
  /\ \E s \in Scalars :
       Call("divideScalar", <<s>>, silent(Vector4_divideScalar(elements, s)), <<>>)

\* m.transpose()
CallTranspose ==
  /\ OnMatrix("Matrix4x4")
  /\ Call("transpose", <<>>, silent(Matrix4x4_transpose(elements)), <<>>)

\* v.normalize() on a Vector3
CallVector3Normalize ==
  /\ kind = "Vector3"
  /\ opCount < MaxCalls
  /\ SqrtExact(Vector3_lengthSq(elements))
  /\ Call("normalize", <<>>, silent(Vector3_normalize(elements)), <<>>)

\* v.normalize() on a Vector4
CallVector4Normalize ==
  /\ kind = "Vector4"
  /\ opCount < MaxCalls
  /\ normalizeExact(elements)
  /\ Call("normalize", <<>>, silent(Vector4_normalize(elements)), <<>>)

Epsilons == {R(0), Frac(1, 2), R(1)}

\* the receiver with d added to its first component
shifted(e, d) == [e EXCEPT ![CHOOSE i \in DOMAIN e : \A j \in DOMAIN e : i <= j] = Add(@, d)]

\* operands of equals: a clone of the receiver, and the receiver with its
\* first component moved by 1/2, 1 or 2
Others(e) == {e, shifted(e, Frac(1, 2)), shifted(e, R(1)), shifted(e, R(-2))}

\* v.equals(other, epsilon) on a Vector3
CallVector3Equals ==
  /\ kind = "Vector3"
  /\ opCount < MaxCalls
  /\ \E f \in Others(elements) : \E epsilon \in Epsilons :
       Call("equals", <<f, epsilon>>, silent(elements),
            Vector3_equals(elements, f, epsilon))

\* q.equals(other, epsilon) on a Quaternion
CallQuaternionEquals ==
  /\ OnQuaternion
  /\ \E f \in Others(elements) : \E epsilon \in Epsilons :
       Call("equals", <<f, epsilon>>, silent(elements),
            Quaternion_equals(elements, f, epsilon))

\* m.equals(other, epsilon) on a Matrix4x4
CallMatrix4x4Equals ==
  /\ OnMatrix("Matrix4x4")
  /\ \E f \in Others(elements) : \E epsilon \in Epsilons :
       Call("equals", <<f, epsilon>>, silent(elements),
            Matrix4x4_equals(elements, f, epsilon))

NextCalls ==
  \/ CallOnChange
  \/ CallSetX
  \/ CallSetY
  \/ CallSetZ
  \/ CallSetW
  \/ CallSet
  \/ CallCopy
  \/ CallIdentity
  \/ CallConjugate
  \/ CallNegate
  \/ CallNormalize
  \/ CallInvert
  \/ CallMultiply
  \/ CallMultiplyQuaternions
  \/ CallSlerp
  \/ CallSetFromAxisAngle
  \/ CallSetFromEuler
  \/ CallSetFromRotationMatrix
  \/ CallSetFromArray
  \/ CallToAxisAngle
  \/ CallRotateVector3
  \/ CallCompose
  \/ CallSetFromRotationQuaternion
  \/ CallMatrix4x4Invert
  \/ CallMatrix3x3Invert
  \/ CallVector3DivideScalar
  \/ CallVector4DivideScalar
  \/ CallTranspose
  \/ CallVector3Normalize
  \/ CallVector4Normalize
  \/ CallVector3Equals
  \/ CallQuaternionEquals
  \/ CallMatrix4x4Equals

SpecCalls == InitCalls /\ [][NextCalls]_vars

\* every square root taken by the last method called was exact
CallRootsExact ==
  (kind = "Quaternion" /\ lastOp \in {"normalize", "setFromAxisAngle", "setFromEuler",
                                       "setFromRotationMatrix"})
    => lengthSq(elements) \in {R(0), R(1)}

(***************************************************************************)
(* A decompose call followed step by step.  quaternion.setFromRotationMatrix *)
(* calls the quaternion's callback after each of its four setters and after *)
(* normalize(); the callback may call decompose on another matrix, with    *)
(* three other output objects, before the first call goes on.              *)
(***************************************************************************)
MaxNested == 2

\* new Vector3(), new Quaternion(), new Vector3()
FreshOutputs == <<origin, identityRotation, origin>>

mirroredBlock == <<2, 0, 0, 0, -1, 0, 0, 0, 3>>

turnedBlock == <<0, -1, 0, 1, 0, 0, 0, 0, 1>>

\* matrices decompose is called on: sheared, turned, mirrored and scaled
ReentrantMatrices ==
  {te \in {fromBlock(b, p) :
             b \in ShearedBlocks \cup {identityBlock, mirroredBlock, turnedBlock},
             p \in {Vector3(R(1), R(2), R(-3)), Vector3(R(0), R(5), R(0))}} :
     decomposeExact(te)}

\* decompose(position, quaternion, scale): the contents of the three arguments
\* when it returns
Matrix4x4_decompose(te) ==
  Local(decompose(te), LAMBDA out : <<out.position, out.quaternion, out.scale>>)

\* the three arguments before a call: new objects, or objects an earlier
\* decompose of another matrix has written
PriorOutputs ==
  {FreshOutputs, Matrix4x4_decompose(fromBlock(mirroredBlock, Vector3(R(4), R(4), R(4))))}

\* the temporaries of one call: rot = new Matrix4x4() filled from the basis,
\* and the four values setFromRotationMatrix derives from its local copies
\* m11, ..., m33 of rot.elements
decomposeFrame(te) ==
  [rot |-> rotationBasis(te), raw |-> rotationRaw(rotationBasis(te))]

\* temporaries kept in one place for all calls: a nested call overwrites them
temporariesAfter_shared(outer, nested) == nested

\* every temporary is a const or a new object of the call that made it: the
\* temporaries of a call are the same after a nested call as before it
temporariesAfter(outer, nested) == outer

InitReentrant ==
  /\ NoPipeline
  /\ kind = "Matrix4x4"
  /\ elements \in ReentrantMatrices
  /\ onChange = FALSE
  /\ notified = <<>>
  /\ before = <<>>
  /\ lastOp = ""
  /\ lastArgs = <<>>
  /\ argsAfter = <<>>
  /\ returned = <<>>
  /\ opCount = 0
  /\ pc = "ready"
  /\ frame = <<>>
  /\ \E te \in ReentrantMatrices \ {elements} : \E prior \in PriorOutputs :
       other = [elements |-> te, prior |-> prior, outputs |-> prior]
  /\ nestedCalls = 0

\* the quaternion's callback: it returns at once, or calls
\* other.decompose(position2, quaternion2, scale2) first
Callback(run) ==
  IF run
  THEN /\ nestedCalls < MaxNested
       /\ other' = [other EXCEPT !.outputs = Matrix4x4_decompose(other.elements)]
       /\ frame' = temporariesAfter(frame, decomposeFrame(other.elements))
       /\ nestedCalls' = nestedCalls + 1
  ELSE UNCHANGED <<frame, other, nestedCalls>>

\* decompose steps 1 to 6 and the head of setFromRotationMatrix(rot)
BeginDecompose ==
  /\ pc = "ready"
  /\ \E prior \in PriorOutputs :
       /\ lastArgs' = prior
       /\ argsAfter' = [prior EXCEPT ![1] = translation(elements)]
  /\ frame' = decomposeFrame(elements)
  /\ before' = elements
  /\ lastOp' = "decompose"
  /\ opCount' = opCount + 1
  /\ pc' = "w"
  /\ UNCHANGED <<kind, elements, onChange, notified, returned, other, nestedCalls>>
  /\ UNCHANGED pipelineVars

\* one of this.w = ..., this.x = ..., this.y = ..., this.z = ..., and the callback
Assign(i, next, run) ==
  /\ argsAfter' = [argsAfter EXCEPT ![2][i] = frame.raw[i]]
  /\ Callback(run)
  /\ pc' = next
  /\ UNCHANGED <<kind, elements, onChange, notified, before, lastOp, lastArgs,
                 returned, opCount>>
  /\ UNCHANGED pipelineVars

AssignW ==
  /\ pc = "w"
  /\ \E run \in BOOLEAN : Assign(4, "x", run)

AssignX ==
  /\ pc = "x"
  /\ \E run \in BOOLEAN : Assign(1, "y", run)

AssignY ==
  /\ pc = "y"
  /\ \E run \in BOOLEAN : Assign(2, "z", run)

AssignZ ==
  /\ pc = "z"
  /\ \E run \in BOOLEAN : Assign(3, "normalize", run)

\* return this.normalize(), with the callback when the length is above 0
NormalizeStep ==
  /\ pc = "normalize"
  /\ \E r \in {Quaternion_normalize(argsAfter[2])} :
       /\ argsAfter' = [argsAfter EXCEPT ![2] = r.elements]
       /\ \E run \in BOOLEAN :
            /\ run => r.notified # <<>>
            /\ Callback(run)
  /\ pc' = "scale"
  /\ UNCHANGED <<kind, elements, onChange, notified, before, lastOp, lastArgs,
                 returned, opCount>>
  /\ UNCHANGED pipelineVars

\* sx, sy, sz from te and the quaternion, scale.set(sx, sy, sz), return this
FinishDecompose ==
  /\ pc = "scale"
  /\ argsAfter' = [argsAfter EXCEPT ![3] = rederivedScale(elements, argsAfter[2])]
  /\ pc' = "done"
  /\ UNCHANGED <<kind, elements, onChange, notified, before, lastOp, lastArgs,
                 returned, opCount, frame, other, nestedCalls>>
  /\ UNCHANGED pipelineVars

NextReentrant ==
  \/ BeginDecompose
  \/ AssignW
  \/ AssignX
  \/ AssignY
  \/ AssignZ
  \/ NormalizeStep
  \/ FinishDecompose

SpecReentrant == InitReentrant /\ [][NextReentrant]_vars

(***************************************************************************)
(* Properties                                                              *)
(***************************************************************************)
Composed == mode = "trs" /\ built

NonzeroScale == \A i \in 1..3 : scale[i][1] # 0

PositiveScale == \A i \in 1..3 : scale[i][1] > 0

\* C1: for every position, unit quaternion and scale with three nonzero
\* components, recomposing the outputs of decompose(compose(p, q, s)) gives a
\* matrix equal to compose(p, q, s) in all 16 elements.
C1_RoundTrip ==
  (Composed /\ NonzeroScale /\ recomposed) => m2 = m

\* C2: for a scale with three strictly positive components, decompose of
\* compose(p, q, s) returns position p, scale s and rotation q or -q.
C2_PositiveScaleRecovered ==
  (Composed /\ PositiveScale /\ decomposed) =>
    /\ outPosition = position
    /\ outScale = scale
    /\ outRotation = rotation \/ outRotation = negated(rotation)

\* C3: if one of the three linear-block columns has zero Euclidean length,
\* decompose outputs the scale (0,0,0) and the identity rotation (0,0,0,1).
C3_DegenerateScaleGuard ==
  (decomposed /\ \E i \in 1..3 : columnLengths(m)[i] = R(0)) =>
    /\ outScale = origin
    /\ outRotation = identityRotation

\* C4: compose(p, q, (0,0,0)) has determinant 0, and its decompose returns
\* position p and a scale of length 0 with no NaN component.
C4_ZeroScale ==
  (Composed /\ scale = origin) =>
    /\ det # <<>> => det = R(0)
    /\ decomposed =>
         /\ outPosition = position
         /\ Vector3_length(outScale) = R(0)
         /\ \A i \in 1..3 : ~IsNaN(outScale[i])

C4_Witness ==
  /\ Composed
  /\ scale = origin
  /\ rotation # identityRotation
  /\ position # origin
  /\ det = R(0)
  /\ decomposed
  /\ outPosition = position
  /\ outScale = origin

\* C5: for compose(p, q, s) with nonzero s, every component of the scale
\* returned by decompose has the magnitude of the corresponding column length,
\* and the product of the three signs is the sign of s.x * s.y * s.z.
C5_ScaleAssembly ==
  (Composed /\ NonzeroScale /\ decomposed) =>
    /\ \A i \in 1..3 : IsFinite(outScale[i]) /\
                        <<Abs(outScale[i][1]), outScale[i][2]>> = columnLengths(m)[i]
    /\ Sgn(outScale[1][1]) * Sgn(outScale[2][1]) * Sgn(outScale[3][1])
         = Sgn(scale[1][1]) * Sgn(scale[2][1]) * Sgn(scale[3][1])

\* C6: when the normalized column basis has negative determinant, the one axis
\* decompose negates is the axis whose column length is the largest of the three.
C6_MirrorAxisLargest ==
  (decomposed /\ Lt(detSign(m), R(0))) =>
    \A a \in {mirrorAxis(m)} :
      \A len \in {columnLengths(m)} :
        /\ a \in 1..3
        /\ \A j \in 1..3 : ~Lt(len[a], len[j])

\* C7: the quaternion written by decompose has w >= 0, for every matrix
\* compose(p, q, s) with unit q and nonzero s.
C7_CanonicalHemisphere ==
  (Composed /\ NonzeroScale /\ decomposed) => ~Lt(outRotation[4], R(0))

\* C8: whatever the linear block, the position written by decompose is
\* elements 12, 13, 14 of the matrix.
C8_TranslationCopied ==
  decomposed => outPosition = <<m[12], m[13], m[14]>>

C8_Witness ==
  /\ decomposed
  /\ block \in ShearedBlocks
  /\ position # origin
  /\ outPosition = position

\* C9: the quaternion written by setFromRotationMatrix, directly or inside
\* decompose, has length 1, for orthonormal, non-orthonormal and zero blocks.
C9_UnitLength ==
  (extracted \/ decomposed) => lengthSq(outRotation) = R(1)

C9_Witness ==
  /\ extracted
  /\ block = << 0,  0, 0,
                1,  0, 0,
               -1, -1, 0>>
  /\ outRotation = <<Frac(-1, 2), Frac(-1, 2), Frac(1, 2), Frac(1, 2)>>

\* C10: determinant() of compose(p, q, s) is s.x * s.y * s.z for every unit q.
C10_DeterminantLaw ==
  (Composed /\ det # <<>>) => det = Mul(Mul(scale[1], scale[2]), scale[3])

C10_Witness ==
  /\ Composed
  /\ rotation = <<Frac(2, 3), Frac(-2, 3), R(0), Frac(1, 3)>>
  /\ scale = Vector3(R(2), R(-1), R(1))
  /\ det = R(-2)

(***************************************************************************)
(* Properties of the methods called on an object                           *)
(***************************************************************************)
Called(k, op) == kind = k /\ lastOp = op

\* C11: for every position p, quaternion q (unit or not) and scale s,
\* compose(p, q, s) leaves in the receiver, whatever it held before, the 16
\* elements of the product setFromTranslation(p) * setFromRotationQuaternion(q)
\* * setFromScaling(s): the columns of the rotation block are the ones scaled.
C11_ComposeIsProduct ==
  Called("Matrix4x4", "compose") =>
    elements = multiplyMatrices(
                 multiplyMatrices(setFromTranslation(lastArgs[1]),
                                  setFromRotationQuaternion(lastArgs[2])),
                 setFromScaling(lastArgs[3]))

\* compose of a non-unit quaternion and a scale of three different components,
\* called on a matrix whose bottom row was not (0, 0, 0, 1)
C11_Witness ==
  /\ Called("Matrix4x4", "compose")
  /\ lengthSq(lastArgs[2]) # R(1)
  /\ lastArgs[3] = Vector3(R(2), R(-1), R(3))
  /\ lastArgs[1] # origin
  /\ before[3] # R(0)
  /\ elements[3] = R(0)
  /\ elements[1] # elements[4]

\* C12: a quaternion q and its negation give the same vector from
\* rotateVector3(v), the same matrix from setFromRotationQuaternion, and the
\* same matrix from compose with equal position and scale.
C12_DoubleCover ==
  /\ Called("Quaternion", "rotateVector3") =>
       returned = rotateVector3(negated(elements), lastArgs[1])
  /\ Called("Matrix4x4", "setFromRotationQuaternion") =>
       elements = setFromRotationQuaternion(negated(lastArgs[1]))
  /\ Called("Matrix4x4", "compose") =>
       elements = compose(lastArgs[1], negated(lastArgs[2]), lastArgs[3])

\* rotateVector3 has moved a vector by the 120 degree rotation about (1, 1, 1)
C12_Witness ==
  /\ Called("Quaternion", "rotateVector3")
  /\ elements = <<Frac(1, 2), Frac(1, 2), Frac(1, 2), Frac(1, 2)>>
  /\ lastArgs[1] = Vector3(R(1), R(-2), R(3))
  /\ returned = Vector3(R(3), R(1), R(-2))

UnitSlerp ==
  /\ Called("Quaternion", "slerp")
  /\ lengthSq(before) = R(1)
  /\ lengthSq(lastArgs[1]) = R(1)

\* C13: for unit quaternions a and b, a.slerp(b, 0) leaves a with its original
\* components and a.slerp(b, 1) makes a equal to b component by component.
C13_SlerpBoundary ==
  /\ (UnitSlerp /\ lastArgs[2] = R(0)) => elements = before
  /\ (UnitSlerp /\ lastArgs[2] = R(1)) => elements = lastArgs[1]

\* C13 (amended): for unit quaternions a and b, a.slerp(b, 0) leaves a with its
\* original components; a.slerp(b, 1) makes a equal to b when dot(a, b) >= 0
\* and to -b, the same rotation, when dot(a, b) < 0.
C13_SlerpBoundaryUpToSign ==
  /\ (UnitSlerp /\ lastArgs[2] = R(0)) => elements = before
  /\ (UnitSlerp /\ lastArgs[2] = R(1)) =>
       elements = IF Lt(Quaternion_dot(before, lastArgs[1]), R(0))
                  THEN negated(lastArgs[1])
                  ELSE lastArgs[1]

\* slerp with t = 1 from the identity to a target on the other hemisphere,
\* through the weighted sum: the receiver holds the negated target
C13_Witness ==
  /\ UnitSlerp
  /\ lastArgs[2] = R(1)
  /\ before = identityRotation
  /\ lastArgs[1] = <<Frac(24, 25), R(0), R(0), Frac(-7, 25)>>
  /\ elements = <<Frac(-24, 25), R(0), R(0), Frac(7, 25)>>
  /\ notified = <<elements>>

\* C14: for unit quaternions a and b with dot(a, b) < 0, a.slerp(b, t) leaves
\* in a the components that a.slerp(-b, t) leaves, for every t.
C14_ShortArc ==
  (UnitSlerp /\ Lt(Quaternion_dot(before, lastArgs[1]), R(0))) =>
    elements = Quaternion_slerp(before, negated(lastArgs[1]), lastArgs[2]).elements

\* slerp halfway from the identity to a target on the other hemisphere
C14_Witness ==
  /\ UnitSlerp
  /\ lastArgs[2] = Frac(1, 2)
  /\ before = identityRotation
  /\ lastArgs[1] = <<Frac(24, 25), R(0), R(0), Frac(-7, 25)>>
  /\ elements = <<Frac(-3, 5), R(0), R(0), Frac(4, 5)>>

\* the operations named by C15, on a quaternion with a registered callback
MutatingOps ==
  {"x", "y", "z", "w", "set", "copy", "normalize", "multiply", "slerp",
   "setFromAxisAngle", "setFromEuler", "setFromRotationMatrix", "setFromArray"}

\* C15: with a callback registered, each of the setters, set, copy,
\* normalize, multiply, slerp, setFromAxisAngle, setFromEuler,
\* setFromRotationMatrix and setFromArray calls it at most once, exactly once
\* when it has changed the quaternion, and what the callback sees is the
\* quaternion the operation leaves, never a partially updated one.
C15_OncePerOperation ==
  (kind = "Quaternion" /\ onChange /\ lastOp \in MutatingOps) =>
    /\ Len(notified) <= 1
    /\ elements # before => Len(notified) = 1
    /\ \A i \in 1..Len(notified) : notified[i] = elements

\* the operations named by C16
ChangingOps ==
  MutatingOps \cup {"identity", "conjugate", "negate", "invert", "multiplyQuaternions"}

\* C16: with a callback registered, every operation that has changed at least
\* one stored component has called it at least once when it returns, wherever
\* in a sequence of operations it comes.
C16_ChangeIsNotified ==
  (kind = "Quaternion" /\ onChange /\ lastOp \in ChangingOps /\ elements # before) =>
    Len(notified) >= 1

\* a second operation, negate(), has changed a quaternion whose callback was
\* registered after the first one
C16_Witness ==
  /\ kind = "Quaternion"
  /\ onChange
  /\ opCount = 2
  /\ lastOp = "negate"
  /\ elements # before
  /\ notified = <<elements>>

\* C17: divideScalar(0) leaves every component of the receiver NaN, for
\* Vector3 and for Vector4, whatever the components were before.
C17_DivideByZeroIsNaN ==
  (kind \in {"Vector3", "Vector4"} /\ lastOp = "divideScalar" /\ lastArgs[1] = R(0)) =>
    \A i \in DOMAIN elements : IsNaN(elements[i])

StoredHalfSine == Sqrt(Sub(R(1), Mul(elements[4], elements[4])))

\* C18: when sqrt(1 - w * w) < 0.001, for w near +1 and for w near -1,
\* toAxisAngle returns the axis (1, 0, 0) and the angle 0.
C18_DegenerateAxisAngle ==
  (Called("Quaternion", "toAxisAngle") /\ Lt(StoredHalfSine, Frac(1, 1000))) =>
    /\ returned.axis = Vector3(R(1), R(0), R(0))
    /\ returned.angle = zeroAngle

\* C19: invert() of a matrix whose determinant is 0 leaves the identity matrix
\* in the receiver, with no NaN and no infinite element, for Matrix4x4 and
\* for Matrix3x3.
C19_SingularInvertIsIdentity ==
  /\ (Called("Matrix4x4", "invert") /\ determinant(before) = R(0)) =>
       elements = identity
  /\ (Called("Matrix3x3", "invert") /\ Matrix3x3_determinant(before) = R(0)) =>
       elements = Matrix3x3_identity

\* invert() called on a singular Matrix3x3 with nonzero entries
C19_Witness ==
  /\ Called("Matrix3x3", "invert")
  /\ Matrix3x3_determinant(before) = R(0)
  /\ before[0] = R(1)
  /\ before[1] = R(1)
  /\ elements = Matrix3x3_identity
  /\ \A i \in 0..8 : elements[i][2] = 1

C21_Transpose ==
  Called("Matrix4x4", "transpose") =>
    /\ \A r \in 0..3 : \A c \in 0..3 : elements[4 * c + r] = before[4 * r + c]
    /\ Matrix4x4_transpose(elements) = before
    /\ before = countingMatrix =>
         Matrix4x4_toArray(elements) = [i \in 1..16 |-> R(i)]

\* transpose() called on set(1, ..., 16)
C21_Witness ==
  /\ Called("Matrix4x4", "transpose")
  /\ before = countingMatrix
  /\ elements # before
  /\ elements[14] = R(15)
  /\ elements[11] = R(12)

Normalized == kind \in {"Vector3", "Vector4", "Quaternion"} /\ lastOp = "normalize"

\* the Euclidean length of the receiver before the last call
LengthBefore ==
  IF kind = "Vector3" THEN Vector3_length(before) ELSE Sqrt(lengthSq(before))

\* C22: normalize() of a Vector3, Vector4 or Quaternion whose components are
\* all 0 leaves them all 0, never NaN; of any other one it leaves each
\* component divided by the length.
C22_Normalize ==
  Normalized =>
    IF \A i \in DOMAIN before : before[i] = R(0)
    THEN elements = before
    ELSE \A i \in DOMAIN before : elements[i] = Div(before[i], LengthBefore)

\* normalize() called on the zero Vector3
C22_Witness ==
  /\ kind = "Vector3"
  /\ lastOp = "normalize"
  /\ before = origin
  /\ elements = origin

\* every pair of corresponding components differs by at most epsilon
WithinEpsilon(e, f, epsilon) ==
  \A i \in DOMAIN e : Ge(epsilon, Fabs(Sub(e[i], f[i])))

\* C23: equals(other, epsilon) of a Vector3, a Quaternion and a Matrix4x4
\* returns true exactly when every pair of corresponding components differs
\* by at most epsilon; so it is true of a clone for every epsilon >= 0.
C23_EqualsWithinEpsilon ==
  (kind \in {"Vector3", "Quaternion", "Matrix4x4"} /\ lastOp = "equals") =>
    returned = WithinEpsilon(before, lastArgs[1], lastArgs[2])

branchEntry(te, b) == te[5 * (b - 1)]

\* C25: when the trace m11 + m22 + m33 is not greater than 0, the branch
\* setFromRotationMatrix takes is the one of a diagonal entry that is greater
\* than or equal to the other two diagonal entries, ties included.
C25_LargestDiagonalChosen ==
  (extracted /\ ~Gt(Add(Add(m[0], m[5]), m[10]), R(0))) =>
    /\ rotationBranch(m) \in 1..3
    /\ \A i \in {0, 5, 10} : Ge(branchEntry(m, rotationBranch(m)), m[i])

\* a quaternion extracted from a matrix whose trace is negative and whose
\* two largest diagonal entries are tied
C25_Witness ==
  /\ mode = "rotation"
  /\ extracted
  /\ m[0] = R(1)
  /\ m[5] = R(1)
  /\ m[10] = R(-3)
  /\ rotationBranch(m) = 2
  /\ outRotation = <<R(0), R(1), R(0), R(0)>>

\* C26: in every branch of setFromRotationMatrix the quantity under the
\* square root is at least 1, and greater than 1 in the trace branch: no
\* branch takes the root of a negative number or divides by zero.
C26_RadicandAtLeastOne ==
  extracted =>
    /\ Ge(rotationRadicand(m), R(1))
    /\ rotationBranch(m) = 0 => Gt(rotationRadicand(m), R(1))
    /\ \A i \in 1..4 : IsFinite(rotationRaw(m)[i])

\* a quaternion extracted in a diagonal branch whose radicand is exactly 1
C26_Witness ==
  /\ mode = "rotation"
  /\ extracted
  /\ rotationBranch(m) \in 1..3
  /\ rotationRadicand(m) = R(1)
  /\ lengthSq(outRotation) = R(1)

\* C27: for every unit quaternion q, setFromRotationMatrix applied to the
\* matrix setFromRotationQuaternion(q) leaves q or -q in the receiver, in
\* the trace branch and in the three diagonal branches.
C27_RoundTripUpToSign ==
  (mode = "quaternion" /\ extracted) =>
    /\ m = setFromRotationQuaternion(rotation)
    /\ outRotation \in {rotation, negated(rotation)}

\* the matrix of a unit quaternion with w = 0 and y < 0 given to
\* setFromRotationMatrix, which took the m22 branch on a tie of m11 and m22
\* and left -q
C27_Witness ==
  /\ mode = "quaternion"
  /\ extracted
  /\ rotationBranch(m) = 2
  /\ rotation = <<Frac(2, 3), Frac(-2, 3), Frac(1, 3), R(0)>>
  /\ outRotation = <<Frac(-2, 3), Frac(2, 3), Frac(-1, 3), R(0)>>

\* C28: slerp(qb, t) leaves the four components of qb as they were before
\* the call, whether the dot product is negative, the operands identical,
\* the near-parallel fallback taken or the general case; only the receiver
\* is written.
C28_SlerpKeepsTarget ==
  Called("Quaternion", "slerp") =>
    argsAfter = lastArgs

\* a slerp toward a target with a negative dot product that has moved the
\* receiver
C28_Witness ==
  /\ Called("Quaternion", "slerp")
  /\ Lt(Quaternion_dot(before, lastArgs[1]), R(0))
  /\ elements # before
  /\ lastArgs[2] = Frac(1, 2)

\* C29: invert() falls back to the identity exactly when determinant() of the
\* same matrix is 0: the determinant invert() computes from the first column
\* of its cofactors equals the value determinant() returns, for every matrix.
C29_FallbackIffDeterminantZero ==
  Called("Matrix4x4", "invert") =>
    /\ invertDet(before, cofactors(before)) = determinant(before)
    /\ (invertDet(before, cofactors(before)) = R(0)) <=> (determinant(before) = R(0))
    /\ determinant(before) = R(0) => elements = identity

\* C30: for a unit quaternion q and a vector v, q.rotateVector3(v) leaves in
\* v, and returns, the vector that applyToVector3(v) gives on the matrix
\* setFromRotationQuaternion(q), and the quaternion is left unchanged.
C30_RotateAsMatrix ==
  (Called("Quaternion", "rotateVector3") /\ lengthSq(before) = R(1)) =>
    /\ returned = applyToVector3(setFromRotationQuaternion(before), lastArgs[1])
    /\ argsAfter = <<returned>>
    /\ elements = before
    /\ notified = <<>>

\* rotateVector3 with a unit quaternion of four nonzero components of
\* different magnitudes, which has moved the vector
C30_Witness ==
  /\ Called("Quaternion", "rotateVector3")
  /\ lengthSq(before) = R(1)
  /\ \A i \in 1..4 : before[i] # R(0)
  /\ Fabs(before[1]) # Fabs(before[4])
  /\ returned # lastArgs[1]
  /\ argsAfter = <<returned>>

====
